---- MODULE Spec2Model ----
(***************************************************************************)
(* A state-machine model of the reasoning core of mcp-reasoner: the        *)
(* Reasoner dispatcher, the A*, constraint-satisfaction and Hybrid         *)
(* strategies, and the thought store they share.                           *)
(*                                                                         *)
(* Conventions.                                                            *)
(*  - A JavaScript Map is a sequence of <<key, value>> pairs in insertion  *)
(*    order; setting an existing key keeps its position.                   *)
(*  - uuidv4() is a fresh counter (nextId).                                *)
(*  - Numbers with a fractional part are kept exact by scaling: the A*     *)
(*    heuristic and f-scores are stored times 10, goal clarity in tenths,  *)
(*    uncertainty as a fraction <<numerator, denominator>>.                *)
(*  - An optional number is <<>> (absent) or <<v>>.                        *)
(*  - The thought text is modelled by the set of constraint keywords its   *)
(*    lower-cased text contains, the only thing the code reads from it.    *)
(*  - state.js (StateManager), strategies/base.js (BaseStrategy),          *)
(*    beam-search.js and mcts.js are not among the sources; they are       *)
(*    modelled from the design document (sections 4.1 to 4.3).             *)
(***************************************************************************)
EXTENDS Integers, Sequences, FiniteSets, TLC

(***************************************************************************)
(* Bounds of the model.                                                    *)
(***************************************************************************)
\* Number of processThought calls explored (each draws one fresh id).
MaxRequests == 3
\* CONFIG.cacheSize (1000 in the program), scaled down so that eviction happens.
CacheSize == 2
\* Number of processThought calls that may be suspended at the same time.
MaxPending == 2

(***************************************************************************)
(* Program constants.                                                      *)
(***************************************************************************)
BEAM_SEARCH == "beam_search"
MCTS == "mcts"
A_STAR == "a_star"
CONSTRAINT_SATISFACTION == "csp"
HYBRID == "hybrid"

\* strategySwitchThresholds (goal clarity in tenths, uncertainty in tenths)
uncertaintyThreshold == 3
goalClarityThreshold == 7
constraintDensityThreshold == 5
\* nodes.slice(-10)
RecentWindow == 10
\* request.totalThoughts || 10
DefaultTotalSteps == 10
\* Math.min(1, variance / 5)
VarianceScale == 5

constraintKeywords == {"must", "should", "required", "necessary", "constraint"}

\* CONFIG.defaultStrategy
defaultStrategy == BEAM_SEARCH

\* A store built with one slot more than CONFIG.cacheSize.
StoreCapacityOffByOne == CacheSize + 1

\* new StateManager(CONFIG.cacheSize)
StoreCapacity == CacheSize

(***************************************************************************)
(* Values of the model.                                                    *)
(***************************************************************************)
\* parentId unset
NoId == 0
\* a parentId that names no node ever created
UnknownId == 99
\* strategyType unset
NoStrategy == "none"
\* a strategyType that is no member of the ReasoningStrategy enum
BogusStrategy == "bogus"

\* Scores evaluateThought may return (nominally 0 to 10).
Scores == {2, 8}
TreeScores == {8}

(***************************************************************************)
(* JavaScript Map as a sequence of <<key, value>> pairs.                   *)
(***************************************************************************)
EmptyMap == <<>>

MapHas(m, k) == \E i \in 1..Len(m) : m[i][1] = k

MapGet(m, k) == m[CHOOSE i \in 1..Len(m) : m[i][1] = k][2]

MapSet(m, k, v) ==
  IF MapHas(m, k)
  THEN [i \in 1..Len(m) |-> IF m[i][1] = k THEN <<k, v>> ELSE m[i]]
  ELSE Append(m, <<k, v>>)

MapDelete(m, k) == SelectSeq(m, LAMBDA e : e[1] # k)

MapKeys(m) == [i \in 1..Len(m) |-> m[i][1]]

MapValues(m) == [i \in 1..Len(m) |-> m[i][2]]

KeySet(m) == {m[i][1] : i \in 1..Len(m)}

\* for (const [k, v] of Object.entries(src)) target.set(k, v)
RECURSIVE MapMerge(_, _)
MapMerge(target, src) ==
  IF src = <<>> THEN target
  ELSE MapMerge(MapSet(target, src[1][1], src[1][2]), Tail(src))

RECURSIVE SumSeq(_)
SumSeq(s) == IF s = <<>> THEN 0 ELSE s[1] + SumSeq(Tail(s))

LastN(s, n) == IF Len(s) <= n THEN s ELSE SubSeq(s, Len(s) - n + 1, Len(s))

(***************************************************************************)
(* Thought Store (StateManager, design section 4.1): a Map from node id to *)
(* node in insertion order, bounded by its capacity; the least recently    *)
(* inserted node is evicted first, and overwriting a resident id keeps its *)
(* place.                                                                  *)
(***************************************************************************)
RECURSIVE Evict(_, _)
Evict(m, capacity) == IF Len(m) > capacity THEN Evict(Tail(m), capacity) ELSE m

\* put(node): insert or overwrite by id, then enforce the capacity
saveNode(store, node) ==
  IF MapHas(store, node.id)
  THEN MapSet(store, node.id, node)
  ELSE Evict(Append(store, <<node.id, node>>), StoreCapacity)

\* get(id) -> node | not-found   (<<node>> or <<>>)
getNode(store, id) == IF MapHas(store, id) THEN <<MapGet(store, id)>> ELSE <<>>

\* getAll() -> sequence of all nodes
getAllNodes(store) == MapValues(store)

\* Follows parentId links upward from a resident node; the walk ends at a
\* root, at a parent that is not resident, or when the defensive bound on
\* its length (the capacity) is used up.
RECURSIVE WalkUp(_, _, _)
WalkUp(store, id, fuel) ==
  IF ~MapHas(store, id) THEN [cycle |-> FALSE, path |-> <<>>]
  ELSE IF fuel = 0 THEN [cycle |-> TRUE, path |-> <<>>]
  ELSE LET node == MapGet(store, id)
           up   == IF node.parentId = NoId
                   THEN [cycle |-> FALSE, path |-> <<>>]
                   ELSE WalkUp(store, node.parentId, fuel - 1)
       IN [cycle |-> up.cycle, path |-> Append(up.path, node)]

\* getPath(id) -> root-to-id sequence; fails with NotFound when id is absent
\* and with CycleDetected when the walk does not terminate.
getPath(store, id) ==
  IF ~MapHas(store, id) THEN [error |-> "NotFound", path |-> <<>>]
  ELSE LET w == WalkUp(store, id, StoreCapacity)
       IN IF w.cycle THEN [error |-> "CycleDetected", path |-> <<>>]
          ELSE [error |-> "", path |-> w.path]

clearStore == EmptyMap

(***************************************************************************)
(* Requests.                                                               *)
(***************************************************************************)
\* request.constraints: absent, or an object with some of the keys
\* domains, assignments, satisfied.
NoConstraints ==
  [present |-> FALSE, keys |-> {}, domains |-> <<>>, assignments |-> <<>>,
   predicates |-> <<>>, satisfied |-> FALSE]

ConstraintPayloads ==
  { NoConstraints,
    [present |-> TRUE, keys |-> {"domains"},
     domains |-> << <<"x", <<1, 2>> >>, <<"y", <<1>> >> >>, assignments |-> <<>>,
     predicates |-> <<>>,
     satisfied |-> FALSE],
    [present |-> TRUE, keys |-> {"domains", "assignments"},
     domains |-> << <<"x", <<1>> >> >>, assignments |-> << <<"x", 1>> >>,
     predicates |-> <<>>,
     satisfied |-> FALSE],
    [present |-> TRUE, keys |-> {"assignments", "satisfied"},
     domains |-> <<>>, assignments |-> << <<"y", 2>> >>,
     predicates |-> <<>>,
     satisfied |-> TRUE] }

\* A payload that carries a predicate for x, written as the set of values it
\* accepts, and an assignment of x that the predicate rejects.
RejectingPayload ==
  [present |-> TRUE, keys |-> {"assignments", "predicates"},
   domains |-> <<>>, assignments |-> << <<"x", 3>> >>,
   predicates |-> << <<"x", <<{1, 2}>> >> >>,
   satisfied |-> FALSE]

Thoughts == { {}, {"must", "should", "required", "necessary", "constraint"} }

\* A thought that is not a string (a number, say): it has no toLowerCase.
NotAString == "<not a string>"

NonStringThought == {NotAString}

\* request.totalThoughts of a request that lacks the field: undefined, which
\* is falsy in totalThoughts || 10 and not above 0 in totalThoughts > 0.
MissingNumber == -1

\* The required fields a request lacks.
MissingFields(req) == IF req.totalThoughts = MissingNumber THEN {"totalThoughts"} ELSE {}

\* A request that is no object (null): 'problemType' in request throws.
NullRequest == [null |-> TRUE]

IsObject(req) == "thought" \in DOMAIN req

StrategyTypes == {NoStrategy, BEAM_SEARCH, MCTS, A_STAR, CONSTRAINT_SATISFACTION, HYBRID,
                  BogusStrategy}

\* request.evaluationMetrics: unset (<<>>) or a list, <<list>>
CallerMetrics == <<"fun">>

MetricsPayloads == {<<>>, <<CallerMetrics>>}

\* 'problemType' in request is false
NoProblemType == "absent"

DefaultRequest ==
  [thought |-> {}, thoughtNumber |-> 1, totalThoughts |-> 3, nextThoughtNeeded |-> TRUE,
   parentId |-> NoId, strategyType |-> NoStrategy, branchingFactor |-> <<>>,
   evaluationMetrics |-> <<>>, constraints |-> NoConstraints,
   problemType |-> NoProblemType]

\* The requests explored vary one group of fields of the default request.
\* SwitchRequests: the strategy switch.
SwitchRequests == {[DefaultRequest EXCEPT !.strategyType = s] : s \in StrategyTypes}

\* TreeRequests: the place in the tree.  A root is the first thought with more
\* to come or the second and last one; a child, of a stored node or of a
\* parentId that names no stored node, is the second and last thought.
TreeRequests(store) ==
  {[DefaultRequest EXCEPT !.thoughtNumber = n[1], !.nextThoughtNeeded = n[2]] :
     n \in {<<1, TRUE>>, <<2, FALSE>>}}
  \cup
  {[DefaultRequest EXCEPT !.parentId = p, !.thoughtNumber = 2, !.nextThoughtNeeded = FALSE] :
     p \in KeySet(store) \cup {UnknownId}}

\* ChainRequests: a root or a child of a stored node, nothing else varied.
ChainRequests(store) ==
  {[DefaultRequest EXCEPT !.parentId = p] : p \in KeySet(store) \cup {NoId}}

\* SignalRequests: what the Hybrid signals and the CSP maps read, sent with
\* the strategy switch that brings the request to Hybrid, CSP or A*.
SignalRequests ==
  {[DefaultRequest EXCEPT !.strategyType = HYBRID, !.thought = t, !.evaluationMetrics = m] :
     t \in Thoughts, m \in MetricsPayloads}
  \cup
  {[DefaultRequest EXCEPT !.strategyType = HYBRID, !.thought = t, !.constraints = k] :
     t \in Thoughts \ {{}}, k \in ConstraintPayloads \ {NoConstraints}}
  \cup
  {[DefaultRequest EXCEPT !.strategyType = CONSTRAINT_SATISFACTION, !.constraints = k] :
     k \in ConstraintPayloads}
  \cup
  {[DefaultRequest EXCEPT !.strategyType = A_STAR]}

(***************************************************************************)
(* Strategies.  A handler takes the mutable state it may touch as a record *)
(*   st = [store, openSet, closedSet, domains, constraints, assignments,   *)
(*         activeStrategy]                                                 *)
(* (the A* and CSP fields are functions of the owner of the instance:      *)
(* "top" for the Reasoner's strategies, "hyb" for the ones Hybrid owns)    *)
(* and returns [st, threw, error, resp, handler].  A handler is written as *)
(* a chain of operators, one per stretch of the method, each handing the   *)
(* values it computed to the next.                                         *)
(***************************************************************************)
Owners == {"top", "hyb"}

Threw(st, err, h) == [st |-> st, threw |-> TRUE, error |-> err, resp |-> <<>>, handler |-> h]

Returned(st, resp, h) == [st |-> st, threw |-> FALSE, error |-> "", resp |-> resp, handler |-> h]

MaxOf(S) == CHOOSE m \in S : \A x \in S : x <= m

\* parentNode = request.parentId ? await this.getNode(request.parentId) : undefined
ParentOf(store, req) == IF req.parentId # NoId THEN getNode(store, req.parentId) ELSE <<>>

\* UpdateParent with unshift in place of push.
UpdateParentPrepends(store, parentNode, id) ==
  IF parentNode # <<>>
  THEN saveNode(store, [parentNode[1] EXCEPT !.children = <<id>> \o @])
  ELSE store

\* UpdateParent without the push and the save of the parent.
UpdateParentSkipped(store, parentNode, id) == store

\* if (parentNode) { parentNode.children.push(node.id); await this.saveNode(parentNode); }
UpdateParent(store, parentNode, id) ==
  IF parentNode # <<>>
  THEN saveNode(store, [parentNode[1] EXCEPT !.children = Append(@, id)])
  ELSE store

\* await this.saveNode(node), then the update of the parent
SaveWithParent(store, node, parentNode) ==
  UpdateParent(saveNode(store, node), parentNode, node.id)

BaseResponse(node, req) ==
  [nodeId |-> node.id, thought |-> node.thought, score |-> node.score, depth |-> node.depth,
   isComplete |-> node.isComplete, nextThoughtNeeded |-> req.nextThoughtNeeded]

(***************************************************************************)
(* BeamSearchStrategy and MonteCarloTreeSearchStrategy (design sections    *)
(* 4.2 and 4.3): create the node, score it, attach it to its parent,       *)
(* persist.                                                                *)
(***************************************************************************)
BaseNode(req, id, sc) ==
  [id |-> id, thought |-> req.thought, depth |-> req.thoughtNumber - 1, score |-> sc,
   children |-> <<>>, parentId |-> req.parentId, isComplete |-> ~req.nextThoughtNeeded]

BaseSave(h, st, req, node, parentNode) ==
  Returned([st EXCEPT !.store = SaveWithParent(st.store, node, parentNode)],
           BaseResponse(node, req), h)

BaseProcessThought(h, st, req, id, sc) ==
  BaseSave(h, st, req, BaseNode(req, id, sc), ParentOf(st.store, req))

(***************************************************************************)
(* AStarSearchStrategy                                                     *)
(***************************************************************************)
\* _calculateHeuristic, times 10
calculateHeuristic(depth, score, totalThoughts) ==
  ((IF totalThoughts \in {0, MissingNumber} THEN DefaultTotalSteps ELSE totalThoughts) - depth)
  * (10 - score)

\* node.heuristicValue || 0, times 10
HeuristicOr0(node) ==
  IF "heuristicValue" \in DOMAIN node /\ node.heuristicValue # <<>>
  THEN node.heuristicValue[1] ELSE 0

\* The score of the last node of the path in place of the sum.
PathScoreLastOnly(path) == IF Len(path) = 0 THEN 0 ELSE path[Len(path)].score

\* path.reduce((acc, n) => acc + n.score, 0)
PathScore(path) == SumSeq([i \in 1..Len(path) |-> path[i].score])

\* f(n) = g(n) + h(n), times 10, of the i-th node of openSet; paths[i] is its getPath
FScore(open, paths, i) == 10 * PathScore(paths[i].path) + HeuristicOr0(open[i][2])

\* The index in openSet of the first node of lowest f.
LowestF(open, paths) ==
  CHOOSE i \in 1..Len(open) :
    /\ \A j \in 1..Len(open) : FScore(open, paths, j) >= FScore(open, paths, i)
    /\ \A j \in 1..(i - 1) : FScore(open, paths, j) > FScore(open, paths, i)

\* MoveToClosed without this.openSet.delete(currentNode.id).
MoveToClosedKeepsOpen(open, closed, currentNode) ==
  [threw |-> FALSE, error |-> "", open |-> open,
   closed |-> MapSet(closed, currentNode.id, currentNode)]

\* Move current node from open to closed set
MoveToClosed(open, closed, currentNode) ==
  [threw |-> FALSE, error |-> "",
   open   |-> MapDelete(open, currentNode.id),
   closed |-> MapSet(closed, currentNode.id, currentNode)]

FirstError(paths) ==
  paths[CHOOSE i \in 1..Len(paths) :
          /\ paths[i].error # ""
          /\ \A j \in 1..(i - 1) : paths[j].error = ""].error

\* The loop over openSet and the move; paths[i] is getPath of the i-th node.
SelectAndMove(open, closed, paths) ==
  IF \E i \in 1..Len(paths) : paths[i].error # ""
  THEN [threw |-> TRUE, error |-> FirstError(paths), open |-> open, closed |-> closed]
  ELSE MoveToClosed(open, closed, open[LowestF(open, paths)][2])

\* _processAStarStep that returns before it selects a node.
processAStarStepSkipped(store, open, closed) ==
  [threw |-> FALSE, error |-> "", open |-> open, closed |-> closed]

processAStarStep(store, open, closed) ==
  IF Len(open) = 0 THEN [threw |-> FALSE, error |-> "", open |-> open, closed |-> closed]
  ELSE SelectAndMove(open, closed, [i \in 1..Len(open) |-> getPath(store, open[i][1])])

\* AStarNode with depth: request.thoughtNumber.
AStarNodeDepthOff(req, id, sc) ==
  [id |-> id, thought |-> req.thought, depth |-> req.thoughtNumber, score |-> sc,
   children |-> <<>>, parentId |-> req.parentId, isComplete |-> ~req.nextThoughtNeeded,
   heuristicValue |-> <<calculateHeuristic(req.thoughtNumber, sc, req.totalThoughts)>>]

AStarNode(req, id, sc) ==
  [id |-> id, thought |-> req.thought, depth |-> req.thoughtNumber - 1, score |-> sc,
   children |-> <<>>, parentId |-> req.parentId, isComplete |-> ~req.nextThoughtNeeded,
   heuristicValue |-> <<calculateHeuristic(req.thoughtNumber - 1, sc, req.totalThoughts)>>]

AStarResponse(node, req, open, closed, currentPath) ==
  [nodeId |-> node.id, thought |-> node.thought, score |-> node.score, depth |-> node.depth,
   isComplete |-> node.isComplete, nextThoughtNeeded |-> req.nextThoughtNeeded,
   openSetSize |-> Len(open), closedSetSize |-> Len(closed),
   estimatedDistanceToGoal |-> node.heuristicValue[1],
   totalCost |-> 10 * PathScore(currentPath) + HeuristicOr0(node),
   bestScore |-> IF Len(open) = 0 THEN <<>>
                 ELSE <<MaxOf({open[i][2].score : i \in 1..Len(open)})>>]

\* lines 53 to 69: the path of the new node and the response
AStarRespond(o, req, node, st, currentPath) ==
  IF currentPath.error # "" THEN Threw(st, currentPath.error, <<o, A_STAR>>)
  ELSE Returned(st, AStarResponse(node, req, st.openSet[o], st.closedSet[o],
                                  currentPath.path), <<o, A_STAR>>)

\* after _processAStarStep (line 51)
AStarAfterStep(o, req, node, st, step) ==
  IF step.threw THEN Threw(st, step.error, <<o, A_STAR>>)
  ELSE AStarRespond(o, req, node,
                    [st EXCEPT !.openSet[o] = step.open, !.closedSet[o] = step.closed],
                    getPath(st.store, node.id))

\* this.openSet.set(node.id, node); await this._processAStarStep()
AStarSearch(o, req, node, st) ==
  AStarAfterStep(o, req, node, st, processAStarStep(st.store, st.openSet[o], st.closedSet[o]))

\* lines 39 to 48: save the node, update the parent, enter openSet
AStarInsert(o, st, req, node, parentNode) ==
  AStarSearch(o, req, node,
              [st EXCEPT !.store = SaveWithParent(st.store, node, parentNode),
                         !.openSet[o] = MapSet(@, node.id, node)])

AStarProcessThought(o, st, req, id, sc) ==
  AStarInsert(o, st, req, AStarNode(req, id, sc), ParentOf(st.store, req))

\* clear that empties openSet and keeps closedSet.
AStarClearOpenOnly(o, st) == [st EXCEPT !.openSet[o] = EmptyMap]

AStarClear(o, st) == [st EXCEPT !.openSet[o] = EmptyMap, !.closedSet[o] = EmptyMap]

(***************************************************************************)
(* ConstraintSatisfactionStrategy                                          *)
(***************************************************************************)
\* A registered predicate is modelled by the set of values it accepts.
Accepts(predicate, value, all) == value \in predicate

\* _checkConstraints failing while nothing is assigned.
checkConstraintsNeedsAssignment(cons, asg) == Len(asg) > 0

\* _checkConstraints
checkConstraints(cons, asg) ==
  \A i \in 1..Len(cons) :
    MapHas(asg, cons[i][1]) =>
      \A j \in 1..Len(cons[i][2]) : Accepts(cons[i][2][j], MapGet(asg, cons[i][1]), asg)

\* _getUnassignedVariables
getUnassignedVariables(doms, asg) == SelectSeq(MapKeys(doms), LAMBDA v : ~MapHas(asg, v))

\* CspNode that takes the node's own id as its parentId.
CspNodeSelfParent(req, id, sc) ==
  [id |-> id, thought |-> req.thought, depth |-> req.thoughtNumber - 1, score |-> sc,
   children |-> <<>>, parentId |-> id, isComplete |-> ~req.nextThoughtNeeded,
   constraints |-> req.constraints]

CspNode(req, id, sc) ==
  [id |-> id, thought |-> req.thought, depth |-> req.thoughtNumber - 1, score |-> sc,
   children |-> <<>>, parentId |-> req.parentId, isComplete |-> ~req.nextThoughtNeeded,
   constraints |-> req.constraints]

\* MergeDomains in which an entry the instance holds wins over the request's.
MergeDomainsKeepsFirst(doms, node) == MapMerge(node.constraints.domains, doms)

\* for (const [variable, domain] of Object.entries(node.constraints.domains || {}))
MergeDomains(doms, node) == MapMerge(doms, node.constraints.domains)

\* MergeAssignments without the merge of the request's assignments.
MergeAssignmentsSkipped(asg, node) == asg

\* for (const [variable, value] of Object.entries(node.constraints.assignments || {}))
MergeAssignments(asg, node) == MapMerge(asg, node.constraints.assignments)

CspResponse(node, req, parentNode, cons, doms, asg) ==
  [nodeId |-> node.id, thought |-> node.thought, score |-> node.score, depth |-> node.depth,
   isComplete |-> node.isComplete, nextThoughtNeeded |-> req.nextThoughtNeeded,
   constraintsSatisfied |-> checkConstraints(cons, asg),
   unassignedVariables |-> getUnassignedVariables(doms, asg),
   currentAssignments |-> asg,
   bestScore |-> <<MaxOf({node.score, IF parentNode # <<>> THEN parentNode[1].score ELSE 0})>>]

\* lines 58 to 74
CspRespond(o, req, node, parentNode, st) ==
  Returned(st, CspResponse(node, req, parentNode, st.constraints[o], st.domains[o],
                           st.assignments[o]), <<o, CONSTRAINT_SATISFACTION>>)

\* lines 37 to 56: save the node, update the parent, merge the payload
CspInsert(o, st, req, node, parentNode) ==
  CspRespond(o, req, node, parentNode,
             [st EXCEPT !.store = SaveWithParent(st.store, node, parentNode),
                        !.domains[o] = MergeDomains(@, node),
                        !.assignments[o] = MergeAssignments(@, node)])

CspProcessThought(o, st, req, id, sc) ==
  CspInsert(o, st, req, CspNode(req, id, sc), ParentOf(st.store, req))

CspClear(o, st) ==
  [st EXCEPT !.domains[o] = EmptyMap, !.constraints[o] = EmptyMap, !.assignments[o] = EmptyMap]

(***************************************************************************)
(* HybridStrategy                                                          *)
(***************************************************************************)
HybridStrategies == <<BEAM_SEARCH, MCTS, A_STAR, CONSTRAINT_SATISFACTION>>

SeqToSet(s) == {s[i] : i \in 1..Len(s)}

\* Hybrid sharing the strategy instances registered in the Reasoner.
SubProcessThoughtShared(o, name, st, req, id, sc) ==
  CASE name = A_STAR -> AStarProcessThought("top", st, req, id, sc)
    [] name = CONSTRAINT_SATISFACTION -> CspProcessThought("top", st, req, id, sc)
    [] OTHER -> BaseProcessThought(<<"top", name>>, st, req, id, sc)

\* A strategy other than Hybrid, owned by o.
SubProcessThought(o, name, st, req, id, sc) ==
  CASE name = A_STAR -> AStarProcessThought(o, st, req, id, sc)
    [] name = CONSTRAINT_SATISFACTION -> CspProcessThought(o, st, req, id, sc)
    [] OTHER -> BaseProcessThought(<<o, name>>, st, req, id, sc)

SubClear(o, name, st) ==
  CASE name = A_STAR -> AStarClear(o, st)
    [] name = CONSTRAINT_SATISFACTION -> CspClear(o, st)
    [] OTHER -> st

\* Math.min(1, variance / 5) with variance = (n * s2 - s1 * s1) / (n * n)
ScaledVariance(n, s1, s2) ==
  IF n * s2 - s1 * s1 >= VarianceScale * n * n THEN <<1, 1>>
  ELSE <<n * s2 - s1 * s1, VarianceScale * n * n>>

UncertaintyOf(scores) ==
  ScaledVariance(Len(scores), SumSeq(scores), SumSeq([i \in 1..Len(scores) |-> scores[i] * scores[i]]))

RecentScores(nodes) == LastN([i \in 1..Len(nodes) |-> nodes[i].score], RecentWindow)

\* _calculateUncertainty with 0 for a store of fewer than two nodes.
calculateUncertaintyZeroDefault(store) ==
  IF Len(store) < 2 THEN <<0, 1>> ELSE UncertaintyOf(RecentScores(getAllNodes(store)))

\* _calculateUncertainty, as the fraction <<numerator, denominator>>
calculateUncertainty(store) ==
  IF Len(store) < 2 THEN <<1, 2>> ELSE UncertaintyOf(RecentScores(getAllNodes(store)))

\* _calculateGoalClarity without the fixed share of hasHeuristics.
calculateGoalClarityNoBaseline(req) ==
  (IF req.evaluationMetrics # <<>> /\ Len(req.evaluationMetrics[1]) > 0 THEN 4 ELSE 0)
  + (IF req.totalThoughts > 0 THEN 3 ELSE 0)

\* _calculateGoalClarity, in tenths
calculateGoalClarity(req) ==
  (IF req.evaluationMetrics # <<>> /\ Len(req.evaluationMetrics[1]) > 0 THEN 4 ELSE 0)
  + (IF req.totalThoughts > 0 THEN 3 ELSE 0) + 3

\* _calculateConstraintDensity
calculateConstraintDensity(req) ==
  (IF req.constraints.present THEN Cardinality(req.constraints.keys) ELSE 0)
  + Cardinality(req.thought \cap constraintKeywords)

\* selectStrategy with the goal-clarity rule tried before the constraint-density rule.
selectStrategyGoalFirst(constraintDensity, goalClarity, uncertainty) ==
  IF goalClarity >= goalClarityThreshold THEN A_STAR
  ELSE IF constraintDensity >= constraintDensityThreshold THEN CONSTRAINT_SATISFACTION
  ELSE IF 10 * uncertainty[1] >= uncertaintyThreshold * uncertainty[2] THEN MCTS
  ELSE BEAM_SEARCH

\* The decision logic of _evaluateStrategySwitch on the three signals.
selectStrategy(constraintDensity, goalClarity, uncertainty) ==
  IF constraintDensity >= constraintDensityThreshold THEN CONSTRAINT_SATISFACTION
  ELSE IF goalClarity >= goalClarityThreshold THEN A_STAR
  ELSE IF 10 * uncertainty[1] >= uncertaintyThreshold * uncertainty[2] THEN MCTS
  ELSE BEAM_SEARCH

\* _switchStrategy
switchStrategy(active, strategy) ==
  IF strategy \in SeqToSet(HybridStrategies) THEN strategy ELSE active

\* _evaluateStrategySwitch without its last statement.
HonorExplicitIgnored(computed, req) == computed

\* Also honor explicit strategy requests
HonorExplicit(computed, req) ==
  IF req.strategyType # NoStrategy THEN switchStrategy(computed, req.strategyType)
  ELSE computed

evaluateStrategySwitch(active, store, req) ==
  HonorExplicit(switchStrategy(active,
                  selectStrategy(calculateConstraintDensity(req), calculateGoalClarity(req),
                                 calculateUncertainty(store))), req)

HybridResponse(resp, active, store, req) ==
  [activeStrategy |-> active, availableStrategies |-> HybridStrategies,
   hybridInfo |-> [uncertaintyLevel |-> calculateUncertainty(store),
                   goalClarity |-> calculateGoalClarity(req),
                   constraintDensity |-> calculateConstraintDensity(req)]] @@ resp

\* lines 224 to 234
HybridRespond(req, active, r) ==
  IF r.threw THEN r ELSE [r EXCEPT !.resp = HybridResponse(r.resp, active, r.st.store, req)]

\* HybridDelegate that hands every request to beam search.
HybridDelegateToBeam(st, req, id, sc, active) ==
  HybridRespond(req, active,
                SubProcessThought("hyb", BEAM_SEARCH, [st EXCEPT !.activeStrategy = active],
                                  req, id, sc))

\* const response = await this.activeStrategy.processThought(request)
HybridDelegate(st, req, id, sc, active) ==
  HybridRespond(req, active,
                SubProcessThought("hyb", active, [st EXCEPT !.activeStrategy = active],
                                  req, id, sc))

\* request.thought.toLowerCase() in _calculateConstraintDensity throws a
\* TypeError on a thought that is not a string, before anything is written.
HybridProcessThought(st, req, id, sc) ==
  IF NotAString \in req.thought THEN Threw(st, "TypeError", <<"hyb", HYBRID>>)
  ELSE HybridDelegate(st, req, id, sc,
                      evaluateStrategySwitch(st.activeStrategy, st.store, req))

RECURSIVE ClearAll(_, _, _)
ClearAll(o, names, st) ==
  IF names = <<>> THEN st ELSE ClearAll(o, Tail(names), SubClear(o, names[1], st))

\* HybridStrategy.clear that also goes back to the strategy Hybrid starts with.
HybridClearResetsActive(st) ==
  [ClearAll("hyb", HybridStrategies, st) EXCEPT !.activeStrategy = BEAM_SEARCH]

\* HybridStrategy.clear without the loop over the strategies it owns.
HybridClearOwnOnly(st) == st

HybridClear(st) == ClearAll("hyb", HybridStrategies, st)

(***************************************************************************)
(* Metrics                                                                 *)
(***************************************************************************)
\* BaseStrategy.getMetrics: a read of the store that adds no field the
\* strategies below rely on.
BaseMetrics(store) == <<>>

\* sum / Math.max(1, size), as the fraction <<sum, Math.max(1, size)>>
AverageOf(values) == <<SumSeq(values), MaxOf({1, Len(values)})>>

AStarMetricsOf(open, closed, store) ==
  [openSetSize |-> Len(open), closedSetSize |-> Len(closed),
   averageHeuristicValue |-> AverageOf([i \in 1..Len(open) |-> HeuristicOr0(open[i][2])])]
  @@ BaseMetrics(store)

AStarMetrics(o, st) == AStarMetricsOf(st.openSet[o], st.closedSet[o], st.store)

CspMetricsOf(doms, cons, asg, store) ==
  [variablesCount |-> Len(doms), assignedVariables |-> Len(asg),
   constraintsSatisfied |-> checkConstraints(cons, asg),
   averageDomainSize |-> AverageOf([i \in 1..Len(doms) |-> Len(doms[i][2])])]
  @@ BaseMetrics(store)

CspMetrics(o, st) == CspMetricsOf(st.domains[o], st.constraints[o], st.assignments[o], st.store)

SubMetrics(o, name, st) ==
  CASE name = A_STAR -> AStarMetrics(o, st)
    [] name = CONSTRAINT_SATISFACTION -> CspMetrics(o, st)
    [] OTHER -> BaseMetrics(st.store)

HybridMetrics(st) ==
  [activeStrategy |-> st.activeStrategy,
   activeStrategyMetrics |-> SubMetrics("hyb", st.activeStrategy, st),
   hybridMetrics |-> [uncertainty |-> calculateUncertainty(st.store), strategySwitches |-> 0]]
  @@ BaseMetrics(st.store)

(***************************************************************************)
(* Reasoner                                                                *)
(***************************************************************************)
\* The keys of Reasoner.strategies after construction, in insertion order.
RegisteredStrategies == <<BEAM_SEARCH, MCTS, A_STAR, CONSTRAINT_SATISFACTION, HYBRID>>

\* this.currentStrategy.processThought(request)
StrategyProcessThought(name, st, req, id, sc) ==
  IF name = HYBRID THEN HybridProcessThought(st, req, id, sc)
  ELSE SubProcessThought("top", name, st, req, id, sc)

StrategyClear(name, st) ==
  IF name = HYBRID THEN HybridClear(st) ELSE SubClear("top", name, st)

(***************************************************************************)
(* getBestPath.  The result is [threw, error, path]: the path returned, or *)
(* the error getPath failed with.                                          *)
(***************************************************************************)
NoPath == [threw |-> FALSE, error |-> "", path |-> <<>>]

PathResult(p) == [threw |-> p.error # "", error |-> p.error, path |-> p.path]

\* return this.stateManager.getPath(node.id)
PathTo(store, id) == PathResult(getPath(store, id))

\* The index of the complete node of highest score, the first of them in the
\* scan (node.score > highestScore), or 0 when no node is complete.
BestComplete(nodes) ==
  IF \A i \in 1..Len(nodes) : ~nodes[i].isComplete THEN 0
  ELSE CHOOSE i \in 1..Len(nodes) :
         /\ nodes[i].isComplete
         /\ \A j \in 1..Len(nodes) : nodes[j].isComplete => nodes[j].score <= nodes[i].score
         /\ \A j \in 1..(i - 1) : nodes[j].isComplete => nodes[j].score < nodes[i].score

\* Beam search and MCTS (design sections 4.2 and 4.3; the nodes of the model
\* carry no visit counts, so MCTS ranks by raw score): the path to the
\* complete node of highest score, first encountered on ties.
BaseBestPathOf(store, nodes, best) ==
  IF best = 0 THEN NoPath ELSE PathTo(store, nodes[best].id)

BaseGetBestPath(st) ==
  BaseBestPathOf(st.store, getAllNodes(st.store), BestComplete(getAllNodes(st.store)))

\* [...this.openSet.values(), ...this.closedSet.values()]
AStarAllNodes(open, closed) == MapValues(open) \o MapValues(closed)

\* fScore = gScore + (node.heuristicValue || 0), times 10
FScoreOf(node, path) == 10 * PathScore(path.path) + HeuristicOr0(node)

\* nodeFScores.reduce((best, current) => current.fScore < best.fScore ? current : best,
\* {node: allNodes[0], fScore: Infinity}): the first node of lowest f.
BestFScore(nodes, paths) ==
  CHOOSE i \in 1..Len(nodes) :
    /\ \A j \in 1..Len(nodes) : FScoreOf(nodes[j], paths[j]) >= FScoreOf(nodes[i], paths[i])
    /\ \A j \in 1..(i - 1) : FScoreOf(nodes[j], paths[j]) > FScoreOf(nodes[i], paths[i])

\* The fall back of AStarSearchStrategy.getBestPath: Promise.all over getPath
\* of every node fails when one of them fails.
AStarFallback(store, nodes, paths) ==
  IF \E i \in 1..Len(paths) : paths[i].error # ""
  THEN [threw |-> TRUE, error |-> FirstError(paths), path |-> <<>>]
  ELSE PathTo(store, nodes[BestFScore(nodes, paths)].id)

AStarBestPathOf(store, nodes, best) ==
  IF best # 0 THEN PathTo(store, nodes[best].id)
  ELSE IF Len(nodes) = 0 THEN NoPath
  ELSE AStarFallback(store, nodes, [i \in 1..Len(nodes) |-> getPath(store, nodes[i].id)])

\* AStarSearchStrategy.getBestPath
AStarGetBestPath(o, st) ==
  AStarBestPathOf(st.store, AStarAllNodes(st.openSet[o], st.closedSet[o]),
                  BestComplete(AStarAllNodes(st.openSet[o], st.closedSet[o])))

\* node.isComplete && node.constraints?.satisfied === true
IsSatisfying(node) ==
  /\ node.isComplete
  /\ "constraints" \in DOMAIN node
  /\ node.constraints.present
  /\ node.constraints.satisfied

\* reduce((best, current) => current.score > best.score ? current : best, nodes[0])
HighestScoring(nodes) ==
  CHOOSE i \in 1..Len(nodes) :
    /\ \A j \in 1..Len(nodes) : nodes[j].score <= nodes[i].score
    /\ \A j \in 1..(i - 1) : nodes[j].score < nodes[i].score

\* No completely satisfying solution, return highest scoring node
CspFallback(store, allNodes) ==
  IF Len(allNodes) = 0 THEN NoPath
  ELSE PathTo(store, allNodes[HighestScoring(allNodes)].id)

CspBestPathOf(store, allNodes, satisfyingNodes) ==
  IF Len(satisfyingNodes) = 0 THEN CspFallback(store, allNodes)
  ELSE PathTo(store, satisfyingNodes[HighestScoring(satisfyingNodes)].id)

\* ConstraintSatisfactionStrategy.getBestPath
CspGetBestPath(st) ==
  CspBestPathOf(st.store, getAllNodes(st.store),
                SelectSeq(getAllNodes(st.store), IsSatisfying))

SubGetBestPath(o, name, st) ==
  CASE name = A_STAR -> AStarGetBestPath(o, st)
    [] name = CONSTRAINT_SATISFACTION -> CspGetBestPath(st)
    [] OTHER -> BaseGetBestPath(st)

\* HybridStrategy.getBestPath: return this.activeStrategy.getBestPath()
HybridGetBestPath(st) == SubGetBestPath("hyb", st.activeStrategy, st)

\* Reasoner.getBestPath: return this.currentStrategy.getBestPath()
ReasonerGetBestPath(current, st) ==
  IF current = HYBRID THEN HybridGetBestPath(st) ELSE SubGetBestPath("top", current, st)

StrategyMetrics(name, st) ==
  IF name = HYBRID THEN HybridMetrics(st) ELSE SubMetrics("top", name, st)

\* processThought without its strategy switch.
SwitchIfRequestedNever(registered, current, req) == current

\* The strategy switch with a fall back to the default strategy for a
\* strategyType that is not registered.
SwitchIfRequestedResets(registered, current, req) ==
  IF req.strategyType = NoStrategy THEN current
  ELSE IF req.strategyType \in SeqToSet(registered) THEN req.strategyType
  ELSE defaultStrategy

\* The strategy switch of Reasoner.processThought (lines 54 to 60).
SwitchIfRequested(registered, current, req) ==
  IF req.strategyType # NoStrategy /\ req.strategyType \in SeqToSet(registered)
  THEN req.strategyType ELSE current

\* getCurrentStrategyName that always takes its fallback.
getCurrentStrategyNameFallback(registered, current) == BEAM_SEARCH

\* getCurrentStrategyName: the key under which the current strategy is registered.
getCurrentStrategyName(registered, current) ==
  IF current \in SeqToSet(registered) THEN current ELSE BEAM_SEARCH

\* return { ...response, strategyUsed: this.getCurrentStrategyName() }
Stamp(registered, current, r) ==
  [current |-> current,
   result  |-> IF r.threw THEN r
               ELSE [r EXCEPT !.resp = [strategyUsed |->
                                          getCurrentStrategyName(registered, current)] @@ @]]

\* lines 62 to 69
Delegate(registered, current, st, req, id, sc) ==
  Stamp(registered, current, StrategyProcessThought(current, st, req, id, sc))

\* CONFIG.gameDevDefaults
gameDevDefaults(problemType) ==
  CASE problemType = "mechanics" ->
         [strategy |-> BEAM_SEARCH, branchingFactor |-> 3, explorationDepth |-> 3,
          evaluationMetrics |-> <<"extensibility", "complexity", "balance">>]
    [] problemType = "systems" ->
         [strategy |-> CONSTRAINT_SATISFACTION, branchingFactor |-> 3, explorationDepth |-> 2,
          evaluationMetrics |-> <<"coupling", "cohesion", "performance">>]
    [] problemType = "procedural" ->
         [strategy |-> MCTS, branchingFactor |-> 4, explorationDepth |-> 3,
          evaluationMetrics |-> <<"variety", "playability", "consistency">>]
    [] problemType = "ai" ->
         [strategy |-> MCTS, branchingFactor |-> 4, explorationDepth |-> 3,
          evaluationMetrics |-> <<"strategic", "feasibility", "performance">>]
    [] problemType = "ui" ->
         [strategy |-> A_STAR, branchingFactor |-> 3, explorationDepth |-> 2,
          evaluationMetrics |-> <<"usability", "clarity", "aesthetics">>]
    [] problemType = "visual" ->
         [strategy |-> BEAM_SEARCH, branchingFactor |-> 2, explorationDepth |-> 3,
          evaluationMetrics |-> <<"quality", "performance", "style">>]

knownTypes == {"mechanics", "systems", "procedural", "ai", "ui", "visual"}

\* _getDefaultConfigForProblemType with visual as the fall back.
getDefaultConfigForProblemTypeVisual(problemType) ==
  gameDevDefaults(IF problemType \in knownTypes THEN problemType ELSE "visual")

\* _getDefaultConfigForProblemType
getDefaultConfigForProblemType(problemType) ==
  gameDevDefaults(IF problemType \in knownTypes THEN problemType ELSE "mechanics")

\* _isGameDevRequest: 'problemType' in request
isGameDevRequest(req) == req.problemType # NoProblemType

\* const problemType = request.problemType || 'mechanics'
ProblemTypeOf(req) == IF req.problemType = "" THEN "mechanics" ELSE req.problemType

\* lines 80 to 96: the request after the defaults are written into it.  A
\* field is taken as missing when it is falsy: unset, or a branchingFactor of 0.
ApplyDefaults(req, defaultConfig) ==
  [req EXCEPT
     !.strategyType = IF @ = NoStrategy THEN defaultConfig.strategy ELSE @,
     !.branchingFactor = IF @ = <<>> \/ @ = <<0>>
                         THEN <<defaultConfig.branchingFactor>> ELSE @,
     !.evaluationMetrics = IF @ = <<>> THEN <<defaultConfig.evaluationMetrics>> ELSE @]

\* _processGameDevRequest that leaves the current strategy of the session alone.
CategorySwitchNever(registered, current, req, defaultConfig) == current

\* lines 80 to 86: the current strategy changes only when the request names none
CategorySwitch(registered, current, req, defaultConfig) ==
  IF req.strategyType = NoStrategy /\ defaultConfig.strategy \in SeqToSet(registered)
  THEN defaultConfig.strategy ELSE current

\* _generateNextSteps
generateNextSteps(resp, req) ==
  (IF ~resp.isComplete THEN <<"continue">> ELSE <<>>)
  \o (IF resp.score < 5 THEN <<"alternatives">> ELSE <<>>)
  \o (IF req.problemType \in knownTypes
      THEN <<req.problemType \o "-1", req.problemType \o "-2">> ELSE <<>>)

\* _calculateProblemTypeAlignment, in tenths: alignmentMap[problemType]?.[strategy] || 0.5
calculateProblemTypeAlignment(problemType, strategy) ==
  IF problemType \notin knownTypes
       \/ strategy \notin {BEAM_SEARCH, MCTS, A_STAR, CONSTRAINT_SATISFACTION, HYBRID}
  THEN 5
  ELSE LET row == CASE problemType = "mechanics"  -> <<9, 6, 7, 5, 8>>
                    [] problemType = "systems"    -> <<7, 5, 6, 9, 8>>
                    [] problemType = "ai"         -> <<5, 9, 6, 4, 8>>
                    [] problemType = "ui"         -> <<7, 4, 9, 6, 7>>
                    [] problemType = "procedural" -> <<5, 9, 6, 7, 8>>
                    [] problemType = "visual"     -> <<8, 5, 6, 4, 7>>
       IN CASE strategy = BEAM_SEARCH -> row[1]
            [] strategy = MCTS -> row[2]
            [] strategy = A_STAR -> row[3]
            [] strategy = CONSTRAINT_SATISFACTION -> row[4]
            [] strategy = HYBRID -> row[5]

\* lines 107 to 117
GameDevResponse(resp, req, problemType, strategyUsed) ==
  [strategyUsed |-> strategyUsed, problemType |-> problemType,
   recommendedNextSteps |-> generateNextSteps(resp, req),
   gameDevMetrics |-> [branchingFactor |-> req.branchingFactor,
                       evaluationMetrics |-> req.evaluationMetrics,
                       problemTypeAlignment |->
                         calculateProblemTypeAlignment(problemType, strategyUsed)]] @@ resp

GameDevStamp(registered, current, req, problemType, r) ==
  [current |-> current,
   result  |-> IF r.threw THEN r
               ELSE [r EXCEPT !.resp = GameDevResponse(@, req, problemType,
                                         getCurrentStrategyName(registered, current))]]

\* line 104: the current strategy processes the request the defaults were written into
GameDevDelegate(registered, current, st, req, problemType, id, sc) ==
  GameDevStamp(registered, current, req, problemType,
               StrategyProcessThought(current, st, req, id, sc))

GameDevConfigured(registered, current, st, req, problemType, defaultConfig, id, sc) ==
  GameDevDelegate(registered, CategorySwitch(registered, current, req, defaultConfig), st,
                  ApplyDefaults(req, defaultConfig), problemType, id, sc)

\* _processGameDevRequest
processGameDevRequest(registered, current, st, req, problemType, id, sc) ==
  GameDevConfigured(registered, current, st, req, problemType,
                    getDefaultConfigForProblemType(problemType), id, sc)

\* processThought that treats a request naming a registered strategy as a
\* strategy switch and nothing more.
ReasonerProcessThoughtSwitchOnly(registered, current, st, req, id, sc) ==
  IF isGameDevRequest(req)
  THEN processGameDevRequest(registered, current, st, req, ProblemTypeOf(req), id, sc)
  ELSE IF req.strategyType # NoStrategy /\ req.strategyType \in SeqToSet(registered)
  THEN [current |-> req.strategyType,
        result  |-> Returned(st, [nodeId |-> "", strategyUsed |-> req.strategyType],
                             <<"top", req.strategyType>>)]
  ELSE Delegate(registered, SwitchIfRequested(registered, current, req), st, req, id, sc)

\* Reasoner.processThought
ReasonerProcessThought(registered, current, st, req, id, sc) ==
  IF isGameDevRequest(req)
  THEN processGameDevRequest(registered, current, st, req, ProblemTypeOf(req), id, sc)
  ELSE Delegate(registered, SwitchIfRequested(registered, current, req), st, req, id, sc)

\* processThought up to its await (lines 54 to 63): the switch, and the call
\* of processThought on the strategy that is current at that moment.
StartWith(current, st, req, id, sc) ==
  [current |-> current, result |-> StrategyProcessThought(current, st, req, id, sc)]

StartCall(registered, current, st, req, id, sc) ==
  StartWith(SwitchIfRequested(registered, current, req), st, req, id, sc)

\* What the suspended call keeps: the outcome of the strategy it awaits.
Awaited(r) == [threw |-> r.threw, error |-> r.error, resp |-> r.resp, handler |-> r.handler]

\* processThought from its await on (lines 65 to 69): the response is stamped
\* with the name of the strategy that is current when the call resumes.
FinishCall(registered, current, r) == Stamp(registered, current, r).result

(***************************************************************************)
(* ReasoningEngine                                                         *)
(***************************************************************************)
\* The response of the catch block of handle.
ErrorResponse(message) ==
  [nodeId |-> "", thought |-> "", score |-> 0, depth |-> 0, isComplete |-> FALSE,
   nextThoughtNeeded |-> FALSE, error |-> TRUE, errorMessage |-> message]

\* _enhanceGameDevResponse
enhanceGameDevResponse(resp) ==
  [godotData |-> [nodeStructure |-> <<>>, resourcePaths |-> <<>>, scriptSnippets |-> <<>>],
   blenderData |-> [materialStructure |-> <<>>, assetCategories |-> <<>>,
                    pipelineSteps |-> <<>>],
   visualizationData |-> [reasoningTreeData |-> <<>>, metricsData |-> <<>>,
                          timelineData |-> <<>>]] @@ resp

\* The try block of handle once this.reasoner.processThought has settled.
EngineOutcome(req, p) ==
  [current |-> p.current, st |-> p.result.st, handler |-> p.result.handler,
   threw |-> p.result.threw, error |-> p.result.error, caught |-> FALSE,
   resp |-> IF p.result.threw THEN <<>>
            ELSE IF isGameDevRequest(req) THEN enhanceGameDevResponse(p.result.resp)
            ELSE p.result.resp]

\* The try block of handle: 'problemType' in request throws on a request
\* that is no object.
EngineTry(registered, current, st, req, id, sc) ==
  IF ~IsObject(req)
  THEN [current |-> current, st |-> st, handler |-> <<"none", "none">>, threw |-> TRUE,
        error |-> "TypeError", caught |-> FALSE, resp |-> <<>>]
  ELSE EngineOutcome(req, ReasonerProcessThought(registered, current, st, req, id, sc))

\* handle without its catch block.
CatchRethrows(outcome) == outcome

\* The catch block of handle.
Catch(outcome) ==
  IF outcome.threw
  THEN [outcome EXCEPT !.threw = FALSE, !.caught = TRUE, !.resp = ErrorResponse(outcome.error)]
  ELSE outcome

\* ReasoningEngine.handle
EngineHandle(registered, current, st, req, id, sc) ==
  Catch(EngineTry(registered, current, st, req, id, sc))

\* FlagActive without the test strategy === this.currentStrategy.
FlagActiveAlways(name, current, metrics) == [active |-> TRUE] @@ metrics

\* metrics[name] = { ...metrics[name], active: true } for the current strategy
FlagActive(name, current, metrics) ==
  IF name = current THEN [active |-> TRUE] @@ metrics ELSE metrics

\* getStrategyMetrics
getStrategyMetrics(registered, current, st) ==
  [i \in 1..Len(registered) |->
     <<registered[i], FlagActive(registered[i], current, StrategyMetrics(registered[i], st))>>]

\* getStats taking the mean number of children over the nodes that have children.
StatsOfPerParent(nodes, metrics) ==
  [totalNodes |-> Len(nodes),
   averageScore |-> <<SumSeq([i \in 1..Len(nodes) |-> nodes[i].score]), Len(nodes)>>,
   maxDepth |-> MaxOf({nodes[i].depth : i \in 1..Len(nodes)}),
   branchingFactor |->
     <<SumSeq([i \in 1..Len(nodes) |-> Len(nodes[i].children)]),
       MaxOf({1, Cardinality({i \in 1..Len(nodes) : nodes[i].children # <<>>})})>>,
   strategyMetrics |-> metrics]

\* lines 290 to 302; the two averages are fractions <<sum, count>>
StatsOf(nodes, metrics) ==
  [totalNodes |-> Len(nodes),
   averageScore |-> <<SumSeq([i \in 1..Len(nodes) |-> nodes[i].score]), Len(nodes)>>,
   maxDepth |-> MaxOf({nodes[i].depth : i \in 1..Len(nodes)}),
   branchingFactor |->
     <<SumSeq([i \in 1..Len(nodes) |-> Len(nodes[i].children)]), Len(nodes)>>,
   strategyMetrics |-> metrics]

\* getStats
getStats(registered, current, st) ==
  IF Len(st.store) = 0
  THEN [totalNodes |-> 0, averageScore |-> <<0, 1>>, maxDepth |-> 0,
        branchingFactor |-> <<0, 1>>, strategyMetrics |-> EmptyMap]
  ELSE StatsOf(getAllNodes(st.store), getStrategyMetrics(registered, current, st))

RECURSIVE ClearStrategies(_, _)
ClearStrategies(names, st) ==
  IF names = <<>> THEN st ELSE ClearStrategies(Tail(names), StrategyClear(names[1], st))

\* Reasoner.clear
ReasonerClear(registered, st) == ClearStrategies(registered, [st EXCEPT !.store = clearStore])

\* setStrategy falling back to the default strategy instead of throwing.
setStrategyFallsBack(registered, current, strategyType) ==
  [threw |-> FALSE, error |-> "",
   current |-> IF strategyType \in SeqToSet(registered) THEN strategyType ELSE BEAM_SEARCH]

\* Reasoner.setStrategy: the new current strategy, or the error thrown
setStrategy(registered, current, strategyType) ==
  IF strategyType \notin SeqToSet(registered)
  THEN [threw |-> TRUE, error |-> "UnknownStrategy", current |-> current]
  ELSE [threw |-> FALSE, error |-> "", current |-> strategyType]

\* getAvailableStrategies
getAvailableStrategies(registered) == registered

(***************************************************************************)
(* The state machine.                                                      *)
(***************************************************************************)
VARIABLES
  store,            \* StateManager: Map id -> node
  nextId,           \* the next fresh node id
  strategies,       \* Reasoner.strategies: the registered identifiers
  currentStrategy,  \* Reasoner.currentStrategy
  activeStrategy,   \* HybridStrategy.activeStrategy
  openSet,          \* AStarSearchStrategy.openSet, per owner
  closedSet,        \* AStarSearchStrategy.closedSet, per owner
  domains,          \* ConstraintSatisfactionStrategy.domains, per owner
  constraints,      \* ConstraintSatisfactionStrategy.constraints, per owner
  assignments,      \* ConstraintSatisfactionStrategy.assignments, per owner
  created,          \* history: ids each A* instance created since its last clear
  out,              \* the last call: its operation, argument and outcome
  stats,            \* what the last getStats returned (<<>> before the first, and
                    \* once a processThought or clear has followed it)
  statsAge,         \* "fresh": nothing ran since that getStats; "switched": only
                    \* setStrategy calls did
  pending           \* processThought calls suspended at the await of line 63

vars == <<store, nextId, strategies, currentStrategy, activeStrategy, openSet, closedSet,
          domains, constraints, assignments, created, out, stats, statsAge, pending>>

State == [store |-> store, openSet |-> openSet, closedSet |-> closedSet, domains |-> domains,
          constraints |-> constraints, assignments |-> assignments,
          activeStrategy |-> activeStrategy]

Install(st) ==
  /\ store' = st.store
  /\ openSet' = st.openSet
  /\ closedSet' = st.closedSet
  /\ domains' = st.domains
  /\ constraints' = st.constraints
  /\ assignments' = st.assignments
  /\ activeStrategy' = st.activeStrategy

Init ==
  /\ store = EmptyMap
  /\ nextId = 1
  /\ strategies = RegisteredStrategies
  /\ currentStrategy = defaultStrategy
  /\ activeStrategy = BEAM_SEARCH
  /\ openSet = [o \in Owners |-> EmptyMap]
  /\ closedSet = [o \in Owners |-> EmptyMap]
  /\ domains = [o \in Owners |-> EmptyMap]
  /\ constraints = [o \in Owners |-> EmptyMap]
  /\ assignments = [o \in Owners |-> EmptyMap]
  /\ created = [o \in Owners |-> {}]
  /\ out = [op |-> "new"]
  /\ stats = <<>>
  /\ statsAge = "none"
  /\ pending = <<>>

\* One processThought call with a request of reqs, scored with one of scores.
ProcessThoughtOf(reqs, scores) ==
  /\ nextId <= MaxRequests
  /\ \E req \in reqs, sc \in scores :
       \E p \in {ReasonerProcessThought(strategies, currentStrategy, State, req, nextId, sc)} :
          /\ Install(p.result.st)
          /\ currentStrategy' = p.current
          /\ created' = IF p.result.handler[2] = A_STAR
                        THEN [created EXCEPT ![p.result.handler[1]] = @ \cup {nextId}]
                        ELSE created
          /\ out' = [op |-> "processThought", request |-> req, threw |-> p.result.threw,
                     error |-> p.result.error, resp |-> p.result.resp,
                     handler |-> p.result.handler]
  /\ nextId' = nextId + 1
  /\ stats' = <<>>
  /\ statsAge' = "none"
  /\ UNCHANGED <<strategies, pending>>

\* One handle call of the ReasoningEngine with a request of reqs.
HandleOf(reqs, scores) ==
  /\ nextId <= MaxRequests
  /\ \E req \in reqs, sc \in scores :
       \E h \in {EngineHandle(strategies, currentStrategy, State, req, nextId, sc)} :
          /\ Install(h.st)
          /\ currentStrategy' = h.current
          /\ created' = IF h.handler[2] = A_STAR
                        THEN [created EXCEPT ![h.handler[1]] = @ \cup {nextId}]
                        ELSE created
          /\ out' = [op |-> "handle", request |-> req, threw |-> h.threw,
                     caught |-> h.caught, error |-> h.error, resp |-> h.resp,
                     handler |-> h.handler]
  /\ nextId' = nextId + 1
  /\ stats' = <<>>
  /\ statsAge' = "none"
  /\ UNCHANGED <<strategies, pending>>

ProcessThought == ProcessThoughtOf(TreeRequests(store) \cup SwitchRequests, TreeScores)

SetStrategy ==
  \E s \in SeqToSet(RegisteredStrategies) \cup {BogusStrategy} :
    \E r \in {setStrategy(strategies, currentStrategy, s)} :
       /\ currentStrategy' = r.current
       /\ out' = [op |-> "setStrategy", strategyType |-> s, threw |-> r.threw,
                  error |-> r.error]
       /\ statsAge' = IF stats = <<>> THEN "none" ELSE "switched"
       /\ UNCHANGED <<store, nextId, strategies, pending, activeStrategy, openSet, closedSet,
                      domains, constraints, assignments, created, stats>>

Clear ==
  /\ \E st \in {ReasonerClear(strategies, State)} : Install(st)
  /\ created' = [o \in Owners |-> {}]
  /\ out' = [op |-> "clear"]
  /\ stats' = <<>>
  /\ statsAge' = "none"
  /\ UNCHANGED <<nextId, strategies, currentStrategy, pending>>

GetStats ==
  /\ stats' = <<getStats(strategies, currentStrategy, State)>>
  /\ statsAge' = "fresh"
  /\ out' = [op |-> "getStats"]
  /\ UNCHANGED <<store, nextId, strategies, pending, currentStrategy, activeStrategy, openSet,
                 closedSet, domains, constraints, assignments, created>>

GetBestPath ==
  /\ \E b \in {ReasonerGetBestPath(currentStrategy, State)} :
       out' = [op |-> "getBestPath", threw |-> b.threw, error |-> b.error, path |-> b.path]
  /\ UNCHANGED <<store, nextId, strategies, pending, currentStrategy, activeStrategy, openSet,
                 closedSet, domains, constraints, assignments, created, stats, statsAge>>

\* getAvailableStrategies: the keys of the strategy map are returned, nothing
\* is written.
GetAvailableStrategies ==
  /\ out' = [op |-> "getAvailableStrategies", names |-> getAvailableStrategies(strategies)]
  /\ UNCHANGED <<store, nextId, strategies, pending, currentStrategy, activeStrategy, openSet,
                 closedSet, domains, constraints, assignments, created, stats, statsAge>>

\* A processThought call runs to its await: the strategy has the request and
\* the caller has a promise.  The steps of the strategy are taken here as one.
Start(reqs, scores) ==
  /\ nextId <= MaxRequests
  /\ Len(pending) < MaxPending
  /\ \E req \in reqs, sc \in scores :
       \E p \in {StartCall(strategies, currentStrategy, State, req, nextId, sc)} :
          /\ Install(p.result.st)
          /\ currentStrategy' = p.current
          /\ created' = IF p.result.handler[2] = A_STAR
                        THEN [created EXCEPT ![p.result.handler[1]] = @ \cup {nextId}]
                        ELSE created
          /\ pending' = Append(pending, [request |-> req, awaited |-> Awaited(p.result)])
          /\ out' = [op |-> "await", request |-> req]
  /\ nextId' = nextId + 1
  /\ stats' = <<>>
  /\ statsAge' = "none"
  /\ UNCHANGED strategies

\* A suspended processThought call resumes and returns its response.
Finish ==
  \E i \in 1..Len(pending) :
    \E r \in {FinishCall(strategies, currentStrategy, pending[i].awaited)} :
       /\ out' = [op |-> "return", request |-> pending[i].request, threw |-> r.threw,
                  error |-> r.error, resp |-> r.resp, handler |-> r.handler]
       /\ pending' = [j \in 1..(Len(pending) - 1) |-> IF j < i THEN pending[j] ELSE pending[j + 1]]
       /\ UNCHANGED <<store, nextId, strategies, currentStrategy, activeStrategy, openSet,
                      closedSet, domains, constraints, assignments, created, stats, statsAge>>

\* The session of a caller that sends the thoughts of a tree and picks the
\* strategy with setStrategy.
Next == ProcessThought \/ SetStrategy \/ Clear

Spec == Init /\ [][Next]_vars

\* The session of a caller that picks the strategy in the request and sends
\* the payloads that Hybrid's signals and the CSP maps read.
SignalThought == ProcessThoughtOf(SignalRequests, Scores)

SignalNext == SignalThought \/ Clear

SignalSpec == Init /\ [][SignalNext]_vars

\* The session of a caller that reads the statistics between its calls.
StatsThought == ProcessThoughtOf(ChainRequests(store), TreeScores)

StatsNext == StatsThought \/ SetStrategy \/ Clear \/ GetStats

StatsSpec == Init /\ [][StatsNext]_vars

\* The switch scenario: the current strategy changes through requests only.
SwitchThought == ProcessThoughtOf(SwitchRequests \cup ChainRequests(store), TreeScores)

SwitchNext == SwitchThought \/ Clear

SwitchSpec == Init /\ [][SwitchNext]_vars

\* The category scenario: requests that carry a problemType.
UnknownProblemType == "narrative"

\* CategoryRequests: a known, an unknown or an empty problemType with
\* nothing else set; a category with branchingFactor and evaluationMetrics
\* supplied; a category with a strategyType supplied; and two requests
\* without a problemType.
CategoryRequests ==
  {[DefaultRequest EXCEPT !.problemType = t] : t \in knownTypes \cup {UnknownProblemType, ""}}
  \cup
  {[DefaultRequest EXCEPT !.problemType = t, !.branchingFactor = <<b>>,
                          !.evaluationMetrics = <<m>>] :
     t \in {"ui", UnknownProblemType}, b \in {0, 5}, m \in {<<>>, CallerMetrics}}
  \cup
  {[DefaultRequest EXCEPT !.problemType = "systems", !.strategyType = s] :
     s \in StrategyTypes}
  \cup
  {[DefaultRequest EXCEPT !.strategyType = s] : s \in {NoStrategy, HYBRID}}

CategoryThought == ProcessThoughtOf(CategoryRequests, TreeScores)

CategoryNext == CategoryThought \/ SetStrategy

CategorySpec == Init /\ [][CategoryNext]_vars

\* The override scenario: requests that make Hybrid the current strategy,
\* and requests with a problemType that name a strategy, which the Reasoner
\* hands to the current strategy as they are.  The thought and the
\* evaluationMetrics vary the signals Hybrid computes.
OverrideRequests ==
  {[DefaultRequest EXCEPT !.strategyType = HYBRID, !.thought = t] : t \in Thoughts}
  \cup
  {[DefaultRequest EXCEPT !.problemType = "systems", !.strategyType = s, !.thought = t,
                          !.evaluationMetrics = <<m>>] :
     s \in StrategyTypes \ {NoStrategy}, t \in Thoughts, m \in {<<>>, CallerMetrics}}

OverrideThought == ProcessThoughtOf(OverrideRequests, TreeScores)

OverrideNext == OverrideThought \/ Clear

OverrideSpec == Init /\ [][OverrideNext]_vars

\* The best-path scenario: A* and CSP build a tree of complete and
\* incomplete nodes of differing scores, and the caller asks for the best path.
BestPathRequests(st) ==
  {[DefaultRequest EXCEPT !.strategyType = A_STAR, !.thoughtNumber = n[1],
                          !.nextThoughtNeeded = n[2], !.parentId = p] :
     n \in {<<1, TRUE>>, <<2, FALSE>>}, p \in KeySet(st) \cup {NoId}}
  \cup
  {[DefaultRequest EXCEPT !.strategyType = CONSTRAINT_SATISFACTION, !.thoughtNumber = n[1],
                          !.nextThoughtNeeded = n[2], !.constraints = c] :
     n \in {<<1, TRUE>>, <<2, FALSE>>},
     c \in {c \in ConstraintPayloads : ~c.present \/ c.satisfied}}

BestPathThought == ProcessThoughtOf(BestPathRequests(store), Scores)

BestPathNext == BestPathThought \/ GetBestPath \/ Clear

BestPathSpec == Init /\ [][BestPathNext]_vars

\* The constraint scenario: CSP requests on any branch of the tree, with
\* payloads that overwrite domains and assignments and one with a predicate.
CspRequests(st) ==
  {[DefaultRequest EXCEPT !.strategyType = CONSTRAINT_SATISFACTION, !.constraints = c,
                          !.parentId = p] :
     c \in ConstraintPayloads \cup {RejectingPayload}, p \in KeySet(st) \cup {NoId}}

CspThought == ProcessThoughtOf(CspRequests(store), TreeScores)

CspNext == CspThought \/ Clear

CspSpec == Init /\ [][CspNext]_vars

\* The depth scenario: a caller that numbers its thoughts along the chain, a
\* root as thought 1 and a child one past its parent, and reads the statistics.
DepthRequests(st) ==
  {DefaultRequest}
  \cup
  {[DefaultRequest EXCEPT !.parentId = p, !.thoughtNumber = MapGet(st, p).depth + 2] :
     p \in KeySet(st)}

DepthThought == ProcessThoughtOf(DepthRequests(store), TreeScores)

DepthNext == DepthThought \/ SetStrategy \/ GetStats \/ Clear

DepthSpec == Init /\ [][DepthNext]_vars

\* The lifecycle scenario: requests that keep or switch the strategy, as roots
\* or children, between calls of every other operation of the Reasoner.
LifecycleRequests(st) ==
  {[DefaultRequest EXCEPT !.strategyType = s, !.parentId = p] :
     s \in {NoStrategy, A_STAR, CONSTRAINT_SATISFACTION, HYBRID}, p \in KeySet(st) \cup {NoId}}

LifecycleThought == ProcessThoughtOf(LifecycleRequests(store), TreeScores)

LifecycleNext ==
  \/ LifecycleThought
  \/ SetStrategy
  \/ GetStats
  \/ GetBestPath
  \/ GetAvailableStrategies
  \/ Clear

LifecycleSpec == Init /\ [][LifecycleNext]_vars

\* The heuristic scenario: A* roots of a caller whose plan has three thoughts
\* and who sends a first thought or a fifth one, past the end of the plan.
HeuristicRequests ==
  {[DefaultRequest EXCEPT !.strategyType = A_STAR, !.thoughtNumber = n] : n \in {1, 5}}

HeuristicThought == ProcessThoughtOf(HeuristicRequests, Scores)

HeuristicNext == HeuristicThought \/ Clear

HeuristicSpec == Init /\ [][HeuristicNext]_vars

\* The routing scenario: a caller that moves the session to Hybrid with a
\* request and then leaves the choice to Hybrid's policy, with or without
\* evaluation metrics, a step budget and a thought full of constraint words.
RoutingRequests ==
  {[DefaultRequest EXCEPT !.strategyType = s, !.evaluationMetrics = m, !.totalThoughts = n] :
     s \in {NoStrategy, HYBRID}, m \in MetricsPayloads, n \in {3, 0}}
  \cup
  {[DefaultRequest EXCEPT !.strategyType = s, !.thought = t] :
     s \in {NoStrategy, HYBRID}, t \in Thoughts \ {{}}}

RoutingThought == ProcessThoughtOf(RoutingRequests, Scores)

RoutingNext == RoutingThought \/ Clear

RoutingSpec == Init /\ [][RoutingNext]_vars

\* The overlap scenario: callers that share the Reasoner and do not wait for
\* one another, each naming the strategy it wants or none.
OverlapRequests ==
  {[DefaultRequest EXCEPT !.strategyType = s] : s \in {NoStrategy, A_STAR, CONSTRAINT_SATISFACTION}}

OverlapStart == Start(OverlapRequests, TreeScores)

OverlapNext == OverlapStart \/ Finish \/ Clear

OverlapSpec == Init /\ [][OverlapNext]_vars

\* The engine scenario: handle calls, some of which fault.
EngineRequests ==
  {NullRequest}
  \cup
  {[DefaultRequest EXCEPT !.thought = t, !.strategyType = HYBRID] :
     t \in {{}, NonStringThought}}
  \cup
  {[DefaultRequest EXCEPT !.problemType = t] : t \in {"systems", "ui"}}
  \cup
  {[DefaultRequest EXCEPT !.parentId = p] : p \in {NoId, UnknownId}}
  \cup
  {[DefaultRequest EXCEPT !.totalThoughts = MissingNumber, !.strategyType = s] :
     s \in {A_STAR, CONSTRAINT_SATISFACTION}}

Handle == HandleOf(EngineRequests, TreeScores)

EngineNext == Handle \/ Clear

EngineSpec == Init /\ [][EngineNext]_vars

(***************************************************************************)
(* Properties.  A step of processThought, setStrategy, clear or getStats   *)
(* is recognised by out'.op; request, id and response of a processThought  *)
(* step are out'.request, nextId (before the step) and out'.resp.          *)
(***************************************************************************)
ProcessThoughtStep == out'.op = "processThought"

\* C1: for each A* instance, openSet and closedSet share no node id, and the
\* ids of the nodes the instance created since its last clear are exactly
\* the ids held by the two sets together (so each is in exactly one set).
AStarSetsPartitionCreated ==
  \A o \in Owners :
    /\ KeySet(openSet[o]) \cap KeySet(closedSet[o]) = {}
    /\ KeySet(openSet[o]) \cup KeySet(closedSet[o]) = created[o]

\* The Reasoner's A* instance has created the second and the third node of the
\* session and holds both.
AStarSetsPartitionCreatedWitness ==
  /\ out.op = "processThought"
  /\ out.handler = <<"top", A_STAR>>
  /\ created["top"] = {2, 3}
  /\ KeySet(closedSet["top"]) = {2, 3}

\* C2: a processThought request whose parentId names a stored node returns,
\* the parent's children list is its old list with the new id appended, and
\* getPath of the new id ends with the parent followed by the new node,
\* whichever strategy handles the request or created the parent.
ChildLinkedToParent ==
  [][(ProcessThoughtStep /\ MapHas(store, out'.request.parentId)) =>
       /\ ~out'.threw
       /\ out'.resp.nodeId = nextId
       /\ MapHas(store', out'.request.parentId)
       /\ MapGet(store', out'.request.parentId).children
            = Append(MapGet(store, out'.request.parentId).children, nextId)
       /\ \E p \in {getPath(store', nextId)} :
            /\ p.error = ""
            /\ Len(p.path) >= 2
            /\ p.path[Len(p.path)].id = nextId
            /\ p.path[Len(p.path) - 1].id = out'.request.parentId]_vars

\* CSP has linked a node to a parent that A* created.
ChildLinkedToParentWitness ==
  /\ out.op = "processThought"
  /\ out.handler = <<"top", CONSTRAINT_SATISFACTION>>
  /\ out.request.parentId \in created["top"]
  /\ MapHas(store, out.request.parentId)
  /\ MapGet(store, out.request.parentId).children = <<out.resp.nodeId>>

\* C3: a processThought request without parentId creates a root: the stored
\* node has no parentId, depth thoughtNumber - 1 and isComplete equal to
\* not nextThoughtNeeded, and the children list of every node that stays in
\* the store is unchanged.
RootCreated ==
  [][(ProcessThoughtStep /\ out'.request.parentId = NoId) =>
       /\ ~out'.threw
       /\ MapHas(store', nextId)
       /\ \E node \in {MapGet(store', nextId)} :
            /\ node.parentId = NoId
            /\ node.depth = out'.request.thoughtNumber - 1
            /\ node.isComplete = ~out'.request.nextThoughtNeeded
            /\ out'.resp.depth = node.depth
            /\ out'.resp.isComplete = node.isComplete
       /\ \A k \in KeySet(store) \cap KeySet(store') :
            MapGet(store', k).children = MapGet(store, k).children]_vars

\* A* has created a complete root as second thought beside another stored node.
RootCreatedWitness ==
  /\ out.op = "processThought"
  /\ out.handler = <<"top", A_STAR>>
  /\ out.request.parentId = NoId
  /\ out.request.thoughtNumber = 2
  /\ out.resp.depth = 1
  /\ out.resp.isComplete
  /\ Len(store) = 2

\* C4: when Hybrid handles a request, its active strategy afterwards is the
\* first match of: constraintDensity >= 5 gives CSP, else goalClarity >= 0.7
\* gives A*, else uncertainty >= 0.3 gives MCTS, else BeamSearch, on the
\* signals of the request and of the store before the call, and that strategy
\* handles the request; constraintDensity 6, goalClarity 0.2, uncertainty 0.1
\* give CSP.
HybridSwitchPriority ==
  [][/\ selectStrategy(6, 2, <<1, 10>>) = CONSTRAINT_SATISFACTION
     /\ (ProcessThoughtStep /\ out'.request.strategyType = HYBRID) =>
          \E cd \in {calculateConstraintDensity(out'.request)},
             gc \in {calculateGoalClarity(out'.request)},
             unc \in {calculateUncertainty(store)} :
            /\ out'.handler[1] = "hyb"
            /\ out'.handler[2] = activeStrategy'
            /\ activeStrategy' =
                 IF cd >= 5 THEN CONSTRAINT_SATISFACTION
                 ELSE IF gc >= 7 THEN A_STAR
                 ELSE IF 10 * unc[1] >= 3 * unc[2] THEN MCTS
                 ELSE BEAM_SEARCH]_vars

\* Hybrid has chosen CSP for a request that also meets the goal-clarity rule.
HybridSwitchPriorityWitness ==
  /\ out.op = "processThought"
  /\ out.request.strategyType = HYBRID
  /\ calculateConstraintDensity(out.request) >= 5
  /\ out.request.evaluationMetrics = <<CallerMetrics>>
  /\ calculateGoalClarity(out.request) >= 7
  /\ activeStrategy = CONSTRAINT_SATISFACTION
  /\ out.handler = <<"hyb", CONSTRAINT_SATISFACTION>>

\* C5: after Reasoner.clear() the store holds no node, the openSet and
\* closedSet of both A* instances and the domains, constraints and
\* assignments of both CSP instances are empty, getStats reports totalNodes
\* 0, and getAvailableStrategies returns what it returned before the clear,
\* the five registered identifiers.
ClearEmptiesAll ==
  [][out'.op = "clear" =>
       /\ store' = EmptyMap
       /\ \A o \in Owners :
            /\ openSet'[o] = EmptyMap
            /\ closedSet'[o] = EmptyMap
            /\ domains'[o] = EmptyMap
            /\ constraints'[o] = EmptyMap
            /\ assignments'[o] = EmptyMap
       /\ getStats(strategies', currentStrategy', State').totalNodes = 0
       /\ getAvailableStrategies(strategies') = getAvailableStrategies(strategies)
       /\ SeqToSet(getAvailableStrategies(strategies')) =
            {BEAM_SEARCH, MCTS, A_STAR, CONSTRAINT_SATISFACTION, HYBRID}]_vars

\* A clear after three thoughts.
ClearEmptiesAllWitness ==
  /\ out.op = "clear"
  /\ nextId > MaxRequests
  /\ store = EmptyMap

\* C6: the unassignedVariables of a response of CSP lists, each once, the
\* variables that have a domain and no assignment once the domains and the
\* assignments of the request are merged into those the instance held.
UnassignedAfterMerge ==
  [][(ProcessThoughtStep /\ out'.handler[2] = CONSTRAINT_SATISFACTION) =>
       \E o \in {out'.handler[1]}, u \in {out'.resp.unassignedVariables} :
         /\ SeqToSet(u) =
              (KeySet(domains[o]) \cup KeySet(out'.request.constraints.domains))
              \ (KeySet(assignments[o]) \cup KeySet(out'.request.constraints.assignments))
         /\ SeqToSet(u) = KeySet(domains'[o]) \ KeySet(assignments'[o])
         /\ Cardinality(SeqToSet(u)) = Len(u)]_vars

\* A request that assigns x, after one that gave x and y their domains,
\* is answered with y alone unassigned.
UnassignedAfterMergeWitness ==
  /\ out.op = "processThought"
  /\ out.handler[2] = CONSTRAINT_SATISFACTION
  /\ "x" \in KeySet(out.request.constraints.assignments)
  /\ MapHas(domains[out.handler[1]], "y")
  /\ out.resp.unassignedVariables = <<"y">>

SetStrategyChecked ==
  [][out'.op = "setStrategy" =>
       IF out'.strategyType \in {BEAM_SEARCH, MCTS, A_STAR, CONSTRAINT_SATISFACTION, HYBRID}
       THEN ~out'.threw /\ currentStrategy' = out'.strategyType
       ELSE /\ out'.threw
            /\ out'.error = "UnknownStrategy"
            /\ UNCHANGED <<currentStrategy, store, activeStrategy, openSet, closedSet,
                           domains, constraints, assignments>>]_vars

\* setStrategy has failed in a session that had selected A* and stored nodes.
SetStrategyCheckedWitness ==
  /\ out.op = "setStrategy"
  /\ out.strategyType = BogusStrategy
  /\ out.threw
  /\ currentStrategy = A_STAR
  /\ closedSet["top"] # EmptyMap

\* C9: the processThought call that follows setStrategy('csp'), with a request
\* that has neither constraints nor strategyType, returns strategyUsed 'csp'
\* and constraintsSatisfied true.
CspVacuouslySatisfied ==
  [][(/\ out.op = "setStrategy"
      /\ out.strategyType = CONSTRAINT_SATISFACTION
      /\ ProcessThoughtStep
      /\ out'.request.strategyType = NoStrategy
      /\ ~out'.request.constraints.present) =>
       /\ ~out'.threw
       /\ out'.resp.strategyUsed = "csp"
       /\ out'.resp.constraintsSatisfied = TRUE]_vars

\* The first thought of a session, sent without strategyType or constraints,
\* has been answered by CSP: the caller had selected it with setStrategy.
CspVacuouslySatisfiedWitness ==
  /\ out.op = "processThought"
  /\ nextId = 2
  /\ out.request.strategyType = NoStrategy
  /\ ~out.request.constraints.present
  /\ out.resp.strategyUsed = "csp"
  /\ out.resp.constraintsSatisfied

\* The per-strategy metrics without the active flag, and the names flagged.
WithoutActive(metrics) ==
  [i \in 1..Len(metrics) |->
     <<metrics[i][1], [k \in DOMAIN metrics[i][2] \ {"active"} |-> metrics[i][2][k]]>>]

FlaggedActive(metrics) ==
  {metrics[i][1] : i \in {j \in 1..Len(metrics) : "active" \in DOMAIN metrics[j][2]}}

\* C10 as stated: a getStats call that follows another with no processThought
\* or clear between them (setStrategy calls may lie between) returns what the
\* first returned.
GetStatsRepeatable ==
  (stats # <<>> /\ statsAge \in {"fresh", "switched"}) =>
     getStats(strategies, currentStrategy, State) = stats[1]

\* C10, amended: getStats changes neither the store, an auxiliary index nor
\* the current strategy; called again with no call between, it returns what
\* it returned; called again with only setStrategy calls between, it returns
\* the same totalNodes, averageScore, maxDepth and branchingFactor and the
\* same per-strategy metrics apart from the active flag, which marks the
\* strategy that is current at the call and no other.
GetStatsPureRead ==
  /\ [][out'.op = "getStats" =>
          /\ UNCHANGED <<store, currentStrategy, activeStrategy, openSet, closedSet,
                         domains, constraints, assignments, strategies>>
          /\ stats' = <<getStats(strategies, currentStrategy, State)>>]_vars
  /\ [](stats # <<>> =>
          \E now \in {getStats(strategies, currentStrategy, State)} :
            /\ statsAge = "fresh" => now = stats[1]
            /\ now.totalNodes = stats[1].totalNodes
            /\ now.totalNodes = Len(store)
            /\ now.averageScore = stats[1].averageScore
            /\ now.maxDepth = stats[1].maxDepth
            /\ now.branchingFactor = stats[1].branchingFactor
            /\ WithoutActive(now.strategyMetrics) = WithoutActive(stats[1].strategyMetrics)
            /\ FlaggedActive(now.strategyMetrics) =
                 IF Len(store) = 0 THEN {} ELSE {currentStrategy})

\* setStrategy has moved the session from A* to CSP since getStats was called
\* on a store of two nodes.
GetStatsPureReadWitness ==
  /\ stats # <<>>
  /\ statsAge = "switched"
  /\ Len(store) = 2
  /\ FlaggedActive(stats[1].strategyMetrics) = {A_STAR}
  /\ currentStrategy = CONSTRAINT_SATISFACTION

(***************************************************************************)
(* ReasoningEngine.handle and the Reasoner's strategy selection            *)
(***************************************************************************)
HandleStep == out'.op = "handle"

\* C11: ReasoningEngine.handle never propagates a fault: every handle call
\* returns, and one whose processing raised an exception (as a request that
\* is no object does, and a thought that is no string does inside Hybrid)
\* returns the error response, with an empty nodeId, isComplete false,
\* error true and a message.
HandleNeverPropagates ==
  [][HandleStep =>
       /\ ~out'.threw
       /\ ~IsObject(out'.request) => out'.caught
       /\ out'.caught =>
            /\ out'.resp.nodeId = ""
            /\ out'.resp.isComplete = FALSE
            /\ out'.resp.error = TRUE
            /\ out'.resp.errorMessage # ""]_vars

\* A handle call whose request carried a thought that is no string was
\* delegated to Hybrid, which raised a TypeError that handle caught.
HandleNeverPropagatesWitness ==
  /\ out.op = "handle"
  /\ out.caught
  /\ IsObject(out.request)
  /\ out.request.thought = NonStringThought
  /\ out.handler = <<"hyb", HYBRID>>
  /\ out.resp.errorMessage = "TypeError"

\* The registered strategy whose processThought handled the last request:
\* a handler inside Hybrid was reached through the registered Hybrid.
HandlingStrategy(handler) == IF handler[1] = "top" THEN handler[2] ELSE HYBRID

\* C12: with requests processed one after the other, every response of
\* Reasoner.processThought, to a request with a problemType or without one,
\* carries as strategyUsed the identifier of the registered strategy whose
\* processThought handled the request.
StrategyUsedNamesHandler ==
  [][(ProcessThoughtStep /\ ~out'.threw) =>
       /\ out'.resp.strategyUsed = HandlingStrategy(out'.handler)
       /\ out'.resp.strategyUsed = currentStrategy']_vars

\* The second request of a session, of category systems and naming no
\* strategy, was handled by the Reasoner's CSP strategy.
StrategyUsedNamesHandlerWitness ==
  /\ out.op = "processThought"
  /\ out.request.problemType = "systems"
  /\ out.request.strategyType = NoStrategy
  /\ out.handler = <<"top", CONSTRAINT_SATISFACTION>>
  /\ out.resp.strategyUsed = CONSTRAINT_SATISFACTION
  /\ Len(store) = 2

\* A request without a problemType.
PlainStep == ProcessThoughtStep /\ out'.request.problemType = NoProblemType

\* C13: a request without a problemType whose strategyType names no
\* registered strategy does not fail: the current strategy is retained and
\* processes the request, a node is created and stored, and strategyUsed
\* names the retained strategy.
UnregisteredStrategyTypeIgnored ==
  [][(PlainStep /\ out'.request.strategyType # NoStrategy
                /\ out'.request.strategyType \notin SeqToSet(strategies)) =>
       /\ ~out'.threw
       /\ currentStrategy' = currentStrategy
       /\ HandlingStrategy(out'.handler) = currentStrategy
       /\ out'.resp.nodeId = nextId
       /\ MapHas(store', nextId)
       /\ out'.resp.strategyUsed = currentStrategy]_vars

\* A* was the current strategy when a request with an unregistered
\* strategyType arrived, and A* created the node of that request.
UnregisteredStrategyTypeIgnoredWitness ==
  /\ out.op = "processThought"
  /\ out.request.strategyType = BogusStrategy
  /\ out.handler = <<"top", A_STAR>>
  /\ out.resp.strategyUsed = A_STAR
  /\ MapHas(store, out.resp.nodeId)
  /\ out.resp.nodeId \in KeySet(closedSet["top"])

\* C14: a request without a problemType whose strategyType names a
\* registered strategy makes that strategy the current one before it
\* delegates, so that strategy processes the request; and the strategy stays
\* current afterwards: a later request without a strategyType neither changes
\* the current strategy nor is processed by another one.
RequestedStrategyPersists ==
  [][/\ (PlainStep /\ out'.request.strategyType \in SeqToSet(strategies)) =>
          /\ currentStrategy' = out'.request.strategyType
          /\ HandlingStrategy(out'.handler) = out'.request.strategyType
          /\ ~out'.threw => out'.resp.strategyUsed = out'.request.strategyType
     /\ (PlainStep /\ out'.request.strategyType = NoStrategy) =>
          /\ currentStrategy' = currentStrategy
          /\ HandlingStrategy(out'.handler) = currentStrategy
     /\ out'.op = "clear" => currentStrategy' = currentStrategy]_vars

\* A request without a strategyType was processed by MCTS, which only an
\* earlier request naming it can have made the current strategy.
RequestedStrategyPersistsWitness ==
  /\ out.op = "processThought"
  /\ out.request.strategyType = NoStrategy
  /\ out.handler = <<"top", MCTS>>
  /\ out.resp.strategyUsed = MCTS
  /\ currentStrategy = MCTS

\* A request with a problemType.
CategoryStep == ProcessThoughtStep /\ out'.request.problemType # NoProblemType

\* What the response reports for a field the caller may have set: the
\* caller's value if there is one, the default otherwise.
CallerOrDefault(supplied, default) == IF supplied = <<>> THEN <<default>> ELSE supplied

\* C15: a request that names one of the six known categories and no strategy
\* is processed by the default strategy of the category, and the
\* branchingFactor and the evaluationMetrics it is processed with are the
\* category's defaults only where the caller left the field unset: a value the
\* caller supplied is kept.
CategoryDefaultsOnlyWhereUnset ==
  [][(CategoryStep /\ ~out'.threw /\ out'.request.problemType \in knownTypes
                   /\ out'.request.strategyType = NoStrategy) =>
       \E cfg \in {gameDevDefaults(out'.request.problemType)} :
          /\ HandlingStrategy(out'.handler) = cfg.strategy
          /\ out'.resp.strategyUsed = cfg.strategy
          /\ out'.resp.gameDevMetrics.branchingFactor
               = CallerOrDefault(out'.request.branchingFactor, cfg.branchingFactor)
          /\ out'.resp.gameDevMetrics.evaluationMetrics
               = CallerOrDefault(out'.request.evaluationMetrics, cfg.evaluationMetrics)]_vars

\* C16: a request with a problemType that names a registered strategy is
\* processed by the strategy it names, and strategyUsed of the response is
\* that name, whatever the current strategy was before the request.
CategoryRequestedStrategyUsed ==
  [][(CategoryStep /\ ~out'.threw /\ out'.request.strategyType \in SeqToSet(strategies)) =>
       /\ HandlingStrategy(out'.handler) = out'.request.strategyType
       /\ out'.resp.strategyUsed = out'.request.strategyType]_vars

\* C17: a request whose problemType is none of the six known categories does
\* not fail: it is processed and its node created and stored, and every field
\* the caller left unset takes the default of mechanics: the strategy
\* beam_search, branchingFactor 3, evaluationMetrics extensibility,
\* complexity, balance.
UnknownCategoryGetsMechanics ==
  [][(CategoryStep /\ out'.request.problemType \notin knownTypes) =>
       /\ ~out'.threw
       /\ out'.resp.nodeId = nextId
       /\ MapHas(store', nextId)
       /\ out'.request.strategyType = NoStrategy =>
            /\ HandlingStrategy(out'.handler) = BEAM_SEARCH
            /\ out'.resp.strategyUsed = BEAM_SEARCH
       /\ out'.request.branchingFactor = <<>> =>
            out'.resp.gameDevMetrics.branchingFactor = <<3>>
       /\ out'.request.evaluationMetrics = <<>> =>
            out'.resp.gameDevMetrics.evaluationMetrics
              = << <<"extensibility", "complexity", "balance">> >>]_vars

\* The second request of a session was of an unknown category with no
\* field set; beam search processed it under the defaults of mechanics.
UnknownCategoryGetsMechanicsWitness ==
  /\ out.op = "processThought"
  /\ out.request.problemType = UnknownProblemType
  /\ out.request.strategyType = NoStrategy
  /\ out.request.branchingFactor = <<>>
  /\ out.request.evaluationMetrics = <<>>
  /\ out.handler = <<"top", BEAM_SEARCH>>
  /\ out.resp.gameDevMetrics.branchingFactor = <<3>>
  /\ out.resp.nodeId = 2
  /\ MapHas(store, 2)

\* The request as the current strategy receives it: a request with a
\* problemType has the defaults written into it first.
SeenByStrategy(req) ==
  IF isGameDevRequest(req)
  THEN ApplyDefaults(req, getDefaultConfigForProblemType(ProblemTypeOf(req)))
  ELSE req

\* The choice Hybrid computes from its three signals for a request on a store.
ComputedChoice(st, req) ==
  selectStrategy(calculateConstraintDensity(req), calculateGoalClarity(req),
                 calculateUncertainty(st))

\* C18: when Hybrid processes a request whose strategyType names one of its
\* four sub-strategies, the request is delegated to the named sub-strategy
\* whatever choice the three signals give; a strategyType that names none of
\* them, as hybrid itself, leaves the choice computed from the signals.
ExplicitOverridesComputed ==
  [][(ProcessThoughtStep /\ ~out'.threw /\ out'.handler[1] = "hyb") =>
       \E req \in {SeenByStrategy(out'.request)} :
          /\ out'.resp.activeStrategy = out'.handler[2]
          /\ activeStrategy' = out'.handler[2]
          /\ out'.handler[2] = IF req.strategyType \in SeqToSet(HybridStrategies)
                               THEN req.strategyType
                               ELSE ComputedChoice(store, req)]_vars

\* Hybrid received a request whose keywords make the computed choice CSP
\* and whose strategyType names beam search, and delegated to beam search.
ExplicitOverridesComputedWitness ==
  /\ out.op = "processThought"
  /\ out.handler = <<"hyb", BEAM_SEARCH>>
  /\ out.request.strategyType = BEAM_SEARCH
  /\ calculateConstraintDensity(out.request) >= constraintDensityThreshold
  /\ out.resp.activeStrategy = BEAM_SEARCH
  /\ out.resp.strategyUsed = HYBRID

(***************************************************************************)
(* The node tree                                                           *)
(***************************************************************************)
IsPrefix(s, t) == Len(s) <= Len(t) /\ \A i \in 1..Len(s) : s[i] = t[i]

\* C19: a node that is stored before and after a step has the same id,
\* thought, depth, score, isComplete and parentId after it as before, and its
\* children list after the step is the list before it with ids appended:
\* nothing is removed or reordered.  (clear empties the store, and no id is
\* given twice.)
NodeFieldsFixedChildrenAppendOnly ==
  [][\A id \in KeySet(store) \cap KeySet(store') :
       \E n \in {MapGet(store, id)}, m \in {MapGet(store', id)} :
          /\ m.id = n.id
          /\ m.thought = n.thought
          /\ m.depth = n.depth
          /\ m.score = n.score
          /\ m.isComplete = n.isComplete
          /\ m.parentId = n.parentId
          /\ IsPrefix(n.children, m.children)]_vars

\* The first node of the session is stored with the second and the third
\* node as its children, appended by two later requests.
NodeFieldsFixedChildrenAppendOnlyWitness ==
  /\ out.op = "processThought"
  /\ MapHas(store, 1)
  /\ MapGet(store, 1).children = <<2, 3>>
  /\ MapGet(store, 1).parentId = NoId

\* The ids given so far, in the order of creation: 1 .. nextId - 1.
CreatedBefore(id) == 1..(id - 1)

\* C20: in every reachable state of the store, the parentId of a stored node,
\* if set, is the id of a node created before it, and every id in the
\* children list of a stored node is the id of a stored node; also after a
\* request whose parentId names no node of the store, and after an eviction.
StoreLinksResolve ==
  \A i \in 1..Len(store) :
    \E n \in {store[i][2]} :
       /\ n.parentId # NoId => n.parentId \in CreatedBefore(n.id)
       /\ \A j \in 1..Len(n.children) : MapHas(store, n.children[j])

(***************************************************************************)
(* Requests that lack a field, best paths, CSP bookkeeping, responses      *)
(***************************************************************************)
\* C21: a request that lacks a required field is rejected: handle answers
\* with the error response and no node is made of the request.
IncompleteRequestRejected ==
  [][(HandleStep /\ IsObject(out'.request) /\ MissingFields(out'.request) # {}) =>
       /\ out'.caught
       /\ out'.resp.error = TRUE
       /\ store' = store]_vars

\* A getBestPath call answered by the Reasoner's A* strategy.
AStarBestPathStep == out'.op = "getBestPath" /\ currentStrategy = A_STAR

\* The last node of a path.
LastOf(path) == path[Len(path)]

\* C22: getBestPath of A* returns the path to a complete node of highest
\* score among the nodes of openSet and closedSet when one of them is
\* complete; when none is complete, the path to a node of lowest f = g + h
\* among them; and the empty path when both sets are empty.
AStarBestPathChoice ==
  [][AStarBestPathStep =>
       \E nodes \in {AStarAllNodes(openSet["top"], closedSet["top"])} :
          /\ ~out'.threw
          /\ Len(nodes) = 0 => out'.path = <<>>
          /\ Len(nodes) > 0 =>
               /\ Len(out'.path) > 0
               /\ \E i \in 1..Len(nodes) : nodes[i].id = LastOf(out'.path).id
          /\ (\E i \in 1..Len(nodes) : nodes[i].isComplete) =>
               /\ LastOf(out'.path).isComplete
               /\ \A i \in 1..Len(nodes) :
                    nodes[i].isComplete => nodes[i].score <= LastOf(out'.path).score
          /\ (Len(nodes) > 0 /\ \A i \in 1..Len(nodes) : ~nodes[i].isComplete) =>
               \A i \in 1..Len(nodes) :
                  FScoreOf(nodes[i], getPath(store, nodes[i].id))
                    >= FScoreOf(LastOf(out'.path), [path |-> out'.path])]_vars

\* A getBestPath call answered by the Reasoner's CSP strategy.
CspBestPathStep == out'.op = "getBestPath" /\ currentStrategy = CONSTRAINT_SATISFACTION

\* C23: getBestPath of CSP returns the path to the highest-scoring complete
\* node whose constraints are marked satisfied; when there is none, the path
\* to the highest-scoring complete node of the store; so the path ends in a
\* complete node whenever the store holds one.
CspBestPathEndsComplete ==
  [][CspBestPathStep =>
       \E nodes \in {getAllNodes(store)} :
          /\ ~out'.threw
          /\ (\E i \in 1..Len(nodes) : IsSatisfying(nodes[i])) =>
               /\ IsSatisfying(LastOf(out'.path))
               /\ \A i \in 1..Len(nodes) :
                    IsSatisfying(nodes[i]) => nodes[i].score <= LastOf(out'.path).score
          /\ ((\E i \in 1..Len(nodes) : nodes[i].isComplete)
                /\ \A i \in 1..Len(nodes) : ~IsSatisfying(nodes[i])) =>
               /\ LastOf(out'.path).isComplete
               /\ \A i \in 1..Len(nodes) :
                    nodes[i].isComplete => nodes[i].score <= LastOf(out'.path).score]_vars

\* A request processed by a CSP instance, the Reasoner's or Hybrid's.
CspStep ==
  ProcessThoughtStep /\ ~out'.threw /\ out'.handler[2] = CONSTRAINT_SATISFACTION

\* C24: constraint checking is conjunctive over the predicates that request
\* payloads supply: when a request supplies a predicate for a variable and
\* the assignment the variable has after the merge is rejected by it, the
\* response reports constraintsSatisfied false.
SuppliedPredicateChecked ==
  [][CspStep =>
       \E asg \in {assignments'[out'.handler[1]]}, preds \in {out'.request.constraints.predicates} :
          (\E i \in 1..Len(preds) :
              /\ MapHas(asg, preds[i][1])
              /\ \E j \in 1..Len(preds[i][2]) :
                   ~Accepts(preds[i][2][j], MapGet(asg, preds[i][1]), asg))
          => out'.resp.constraintsSatisfied = FALSE]_vars

\* after is before with the entries of written put over it: a variable of
\* written has the value written gives it, every other variable of before
\* keeps its entry, and there are no further variables.
WrittenOver(before, written, after) ==
  /\ KeySet(after) = KeySet(before) \cup KeySet(written)
  /\ \A v \in KeySet(after) :
       MapGet(after, v) = IF MapHas(written, v) THEN MapGet(written, v) ELSE MapGet(before, v)

\* C25: the merges of CSP are last-write-wins over the whole session: after a
\* request processed by a CSP instance, on whatever branch of the tree, the
\* domain and the assignment of a variable the request mentions are the ones
\* the request supplies, and a variable it does not mention keeps the entry
\* it had; so each entry is the one of the latest request that mentioned the
\* variable since the last clear.
CspLastWriteWins ==
  [][CspStep =>
       \E o \in {out'.handler[1]}, c \in {out'.request.constraints} :
          /\ WrittenOver(domains[o], c.domains, domains'[o])
          /\ WrittenOver(assignments[o], c.assignments, assignments'[o])]_vars

\* The Reasoner's CSP holds the domain of y an earlier request supplied and
\* the domain of x of the last request, a child of a stored node, which
\* replaced the one the earlier request gave x.
CspLastWriteWinsWitness ==
  /\ out.op = "processThought"
  /\ out.handler = <<"top", CONSTRAINT_SATISFACTION>>
  /\ out.request.parentId # NoId
  /\ out.request.constraints.domains = << <<"x", <<1>> >> >>
  /\ domains["top"] = << <<"x", <<1>> >>, <<"y", <<1>> >> >>

\* A request processed by an A* instance, the Reasoner's or Hybrid's.
AStarStep == ProcessThoughtStep /\ ~out'.threw /\ out'.handler[2] = A_STAR

\* Ten times the sum of the scores of the nodes on the root path of a node.
GOf(st, id) ==
  10 * SumSeq([i \in 1..Len(getPath(st, id).path) |-> getPath(st, id).path[i].score])

HybridStep == ProcessThoughtStep /\ ~out'.threw /\ out'.handler[1] = "hyb"

\* C27: every response of Hybrid reports as activeStrategy the sub-strategy
\* that processed the request, one of beam_search, mcts, a_star and csp and
\* never hybrid, and as availableStrategies those four; and one sub-strategy
\* alone handles the request: one node is added, the indexes of Hybrid's
\* other sub-strategies and of the Reasoner's strategies stay as they were.
HybridReportsHandler ==
  [][HybridStep =>
       /\ out'.resp.activeStrategy = out'.handler[2]
       /\ out'.resp.activeStrategy
            \in {BEAM_SEARCH, MCTS, A_STAR, CONSTRAINT_SATISFACTION}
       /\ SeqToSet(out'.resp.availableStrategies)
            = {BEAM_SEARCH, MCTS, A_STAR, CONSTRAINT_SATISFACTION}
       /\ Len(out'.resp.availableStrategies) = 4
       /\ KeySet(store') \ KeySet(store) = {nextId}
       /\ out'.handler[2] # A_STAR =>
            openSet'["hyb"] = openSet["hyb"] /\ closedSet'["hyb"] = closedSet["hyb"]
       /\ out'.handler[2] # CONSTRAINT_SATISFACTION =>
            domains'["hyb"] = domains["hyb"] /\ assignments'["hyb"] = assignments["hyb"]
       /\ openSet'["top"] = openSet["top"] /\ closedSet'["top"] = closedSet["top"]
       /\ domains'["top"] = domains["top"] /\ assignments'["top"] = assignments["top"]]_vars

\* Hybrid handed a request to its A* after an earlier one went to its CSP:
\* the response names a_star, and the maps of CSP still hold what they held.
HybridReportsHandlerWitness ==
  /\ out.op = "processThought"
  /\ out.handler = <<"hyb", A_STAR>>
  /\ out.resp.activeStrategy = A_STAR
  /\ Len(closedSet["hyb"]) = 1
  /\ Len(domains["hyb"]) > 0

\* The child links of the store, one pair for each position of each children
\* list, and the names whose metrics entry carries active: true.
ChildLinks(st) == {<<i, j>> \in (1..Len(st)) \X (1..MaxRequests) : j <= Len(st[i][2].children)}

ActiveTrue(metrics) ==
  {metrics[i][1] : i \in {j \in 1..Len(metrics) :
                            "active" \in DOMAIN metrics[j][2] /\ metrics[j][2].active}}

\* C28: on a non-empty store getStats reports as totalNodes the number of
\* stored nodes, as maxDepth the largest depth of a stored node, as
\* branchingFactor the number of child links divided by the number of nodes,
\* and one metrics entry for each of the five registered strategies, of which
\* the entry of the current strategy and no other is flagged active.
GetStatsContents ==
  [][(out'.op = "getStats" /\ Len(store) > 0) =>
       \E r \in {stats'[1]} :
         /\ r.totalNodes = Cardinality(KeySet(store))
         /\ \A i \in 1..Len(store) : store[i][2].depth <= r.maxDepth
         /\ \E i \in 1..Len(store) : store[i][2].depth = r.maxDepth
         /\ r.branchingFactor = <<Cardinality(ChildLinks(store)), Cardinality(KeySet(store))>>
         /\ Len(r.strategyMetrics) = 5
         /\ KeySet(r.strategyMetrics)
              = {BEAM_SEARCH, MCTS, A_STAR, CONSTRAINT_SATISFACTION, HYBRID}
         /\ ActiveTrue(r.strategyMetrics) = {currentStrategy}]_vars

\* getStats has just been called on a root with its child while CSP is the
\* current strategy: two nodes, depth one, one child link over two nodes.
GetStatsContentsWitness ==
  /\ out.op = "getStats"
  /\ statsAge = "fresh"
  /\ Len(store) = 2
  /\ currentStrategy = CONSTRAINT_SATISFACTION
  /\ stats[1].totalNodes = 2
  /\ stats[1].maxDepth = 1
  /\ stats[1].branchingFactor = <<1, 2>>
  /\ ActiveTrue(stats[1].strategyMetrics) = {CONSTRAINT_SATISFACTION}

\* A processThought call that returned normally, and a call of one of the
\* other operations that the claim names.
ReturnedStep == ProcessThoughtStep /\ ~out'.threw

ReadOrSwitchStep ==
  out'.op \in {"setStrategy", "getStats", "getBestPath", "getAvailableStrategies"}

\* C29: every processThought call of the Reasoner that returns normally
\* creates one node and no more, under an id no node has had, whichever
\* strategy handles it and whether or not the request switches the strategy:
\* the id is new to the store, it is the one id the call adds, the response
\* carries it, and below capacity the store grows by one node; setStrategy,
\* getStats, getBestPath and getAvailableStrategies leave the store and the id
\* counter as they were.
OneNodePerThought ==
  [][/\ ReturnedStep =>
          /\ nextId \notin KeySet(store)
          /\ KeySet(store') \ KeySet(store) = {nextId}
          /\ MapGet(store', nextId).id = nextId
          /\ out'.resp.nodeId = nextId
          /\ nextId' = nextId + 1
          /\ Len(store) < StoreCapacity => Len(store') = Len(store) + 1
          /\ Len(store') <= Len(store) + 1
     /\ ReadOrSwitchStep => store' = store /\ nextId' = nextId]_vars

\* A request naming a_star has been handled by the Reasoner's A*, which had
\* not made node 1: node 2 has joined node 1 in the store.
OneNodePerThoughtWitness ==
  /\ out.op = "processThought"
  /\ ~out.threw
  /\ out.request.strategyType = A_STAR
  /\ out.handler = <<"top", A_STAR>>
  /\ KeySet(store) = {1, 2}
  /\ out.resp.nodeId = 2
  /\ created["top"] = {2}

\* The ids of openSet of instance o once the new node has been inserted, in
\* iteration order, and ten times f = g + h of one of them as the expansion
\* step computes it, on the store as the call leaves it.
OpenAfterInsert(o) == MapKeys(openSet[o]) \o <<nextId>>

FAtStep(o, id) ==
  GOf(store', id)
    + HeuristicOr0(IF MapHas(openSet[o], id) THEN MapGet(openSet[o], id)
                   ELSE MapGet(store', id))

\* C30: each A* processThought inserts the new node into openSet and runs one
\* expansion step, which moves one node and no more from openSet to
\* closedSet: a node whose f is the least among the members of openSet, and
\* the first of them in iteration order when several share that f.  A node
\* that is in closedSet stays there, and out of openSet, until clear.
AStarExpansionStep ==
  [][/\ AStarStep =>
          \E o \in {out'.handler[1]} :
            \E cand \in {OpenAfterInsert(o)} :
              \E i \in 1..Len(cand) :
                /\ cand[i] \notin KeySet(closedSet[o])
                /\ KeySet(closedSet'[o]) = KeySet(closedSet[o]) \cup {cand[i]}
                /\ KeySet(openSet'[o]) = SeqToSet(cand) \ {cand[i]}
                /\ \A j \in 1..Len(cand) : FAtStep(o, cand[j]) >= FAtStep(o, cand[i])
                /\ \A j \in 1..(i - 1) : FAtStep(o, cand[j]) > FAtStep(o, cand[i])
     /\ out'.op # "clear" =>
          \A o \in Owners :
            /\ KeySet(closedSet[o]) \subseteq KeySet(closedSet'[o])
            /\ KeySet(closedSet[o]) \cap KeySet(openSet'[o]) = {}]_vars

\* The Reasoner's A* has handled its second request since the last clear: the
\* new node has joined the earlier one in closedSet and openSet is empty.
AStarExpansionStepWitness ==
  /\ out.op = "processThought"
  /\ ~out.threw
  /\ out.handler = <<"top", A_STAR>>
  /\ Len(closedSet["top"]) = 2
  /\ out.resp.nodeId = closedSet["top"][2][1]
  /\ Len(openSet["top"]) = 0

\* C31: when a processThought of A* returns, the node it created is in
\* closedSet and openSet is empty; the response reports openSetSize 0 and as
\* closedSetSize the number of nodes that instance has created since its last
\* clear.
AStarLeavesOpenSetEmpty ==
  [][AStarStep =>
       \E o \in {out'.handler[1]} :
          /\ MapHas(closedSet'[o], nextId)
          /\ openSet'[o] = EmptyMap
          /\ out'.resp.openSetSize = 0
          /\ out'.resp.closedSetSize = Cardinality(created'[o])
          /\ out'.resp.closedSetSize = Len(closedSet'[o])]_vars

\* The Reasoner's A* has answered its first request after a clear that
\* followed an earlier A* request: closedSetSize counts the new node alone.
AStarLeavesOpenSetEmptyWitness ==
  /\ out.op = "processThought"
  /\ ~out.threw
  /\ out.handler = <<"top", A_STAR>>
  /\ out.resp.nodeId = 2
  /\ store = << <<2, MapGet(store, 2)>> >>
  /\ created["top"] = {2}
  /\ out.resp.closedSetSize = 1
  /\ out.resp.openSetSize = 0

\* The nodes of the store that A* created.
AStarNodes == {store[i][2] : i \in {j \in 1..Len(store) : "heuristicValue" \in DOMAIN store[j][2]}}

\* C32: the heuristic of A* is antitone in the score and never negative: of
\* two nodes created with the same thoughtNumber and totalThoughts (every
\* request of the scenario has totalThoughts 3, so with the same depth) and
\* scores from 0 to 10, the one of the lower score has a heuristicValue at
\* least as high as the other's, and no heuristicValue is below 0.
HeuristicAntitoneNonNegative ==
  /\ \A n \in AStarNodes : n.heuristicValue[1] >= 0
  /\ \A n1, n2 \in AStarNodes :
       (n1.depth = n2.depth /\ n1.score <= n2.score)
          => n1.heuristicValue[1] >= n2.heuristicValue[1]

\* The request of a step supplied evaluation metrics, a list that is not empty.
MetricsSupplied(req) == req.evaluationMetrics # <<>> /\ req.evaluationMetrics[1] # <<>>

\* C33: the goalClarity of Hybrid, in tenths, is 3, plus 4 when the request
\* supplies a non-empty evaluationMetrics list, plus 3 when it supplies a
\* step budget (totalThoughts > 0); so it is 3, 6, 7 or 10, and it reaches
\* the threshold of the A* rule exactly when evaluation metrics were supplied.
GoalClarityValues ==
  [][HybridStep =>
       \E req \in {out'.request}, c \in {out'.resp.hybridInfo.goalClarity} :
          /\ c = 3 + (IF MetricsSupplied(req) THEN 4 ELSE 0)
                   + (IF req.totalThoughts > 0 THEN 3 ELSE 0)
          /\ c \in {3, 6, 7, 10}
          /\ (c >= goalClarityThreshold) <=> MetricsSupplied(req)
          /\ (MetricsSupplied(req) /\ calculateConstraintDensity(req) < constraintDensityThreshold)
               => out'.handler[2] = A_STAR]_vars

\* Hybrid answered a request with evaluation metrics and no step budget:
\* goalClarity is 0.7, and A* handled the request.
GoalClarityValuesWitness ==
  /\ out.op = "processThought"
  /\ ~out.threw
  /\ out.handler = <<"hyb", A_STAR>>
  /\ out.request.totalThoughts = 0
  /\ out.request.evaluationMetrics = <<CallerMetrics>>
  /\ out.resp.hybridInfo.goalClarity = 7

\* A request that Hybrid routed by its policy alone: it carries no
\* strategyType, or it names Hybrid, which is no key of Hybrid's own map, so
\* that _switchStrategy leaves the choice of the policy as it is.
PolicyStep == HybridStep /\ out'.request.strategyType \in {NoStrategy, HYBRID}

\* C34: whenever the policy of Hybrid hands a request without strategyType to
\* beam search, the store held two nodes or more before the request; on a
\* store of fewer than two nodes uncertainty is 0.5, and a request with a
\* constraintDensity below 5 and a goalClarity below 0.7 goes to MCTS, the
\* first request of a session included.
BeamNeedsTwoNodes ==
  [][PolicyStep =>
       \E req \in {out'.request} :
          /\ out'.handler[2] = BEAM_SEARCH => Len(store) >= 2
          /\ Len(store) < 2 => calculateUncertainty(store) = <<1, 2>>
          /\ (/\ Len(store) < 2
              /\ calculateConstraintDensity(req) < constraintDensityThreshold
              /\ calculateGoalClarity(req) < goalClarityThreshold)
               => out'.handler[2] = MCTS]_vars

\* Hybrid is the current strategy and its policy sent the third request of
\* the session, one without strategyType, to beam search, on a store that
\* held two nodes.
BeamNeedsTwoNodesWitness ==
  /\ out.op = "processThought"
  /\ ~out.threw
  /\ out.request.strategyType = NoStrategy
  /\ out.handler = <<"hyb", BEAM_SEARCH>>
  /\ currentStrategy = HYBRID
  /\ out.resp.nodeId = 3
  /\ KeySet(store) = {2, 3}

\* C35: for a request that Hybrid routed by its policy, the three signals in
\* the response are the ones the routing was based on: the switch policy
\* applied to the reported uncertaintyLevel, goalClarity and
\* constraintDensity gives the reported activeStrategy.
ReportedSignalsExplainRouting ==
  [][PolicyStep /\ out'.request.strategyType = NoStrategy =>
       \E info \in {out'.resp.hybridInfo} :
          selectStrategy(info.constraintDensity, info.goalClarity, info.uncertaintyLevel)
            = out'.resp.activeStrategy]_vars

\* The owner of the instances that a returned processThought went through:
\* Hybrid's own when Hybrid is the current strategy after the switch of the
\* request, the Reasoner's otherwise.
OwnerInForce == IF currentStrategy' = HYBRID THEN "hyb" ELSE "top"

AStarKeys(o) == KeySet(openSet[o]) \cup KeySet(closedSet[o])

\* C36: a processThought handled by one strategy instance leaves the indexes
\* of every other instance as they were: only the sets of the A* that handled
\* it, or the maps of the CSP that handled it, change.  The instances Hybrid
\* owns are not the ones registered in the Reasoner: a node that the A* inside
\* Hybrid created is in neither set of the Reasoner's A*, nor the reverse.
OtherIndexesUntouched ==
  /\ [][ReturnedStep =>
          \A o \in Owners :
            /\ (o # OwnerInForce \/ out'.handler[2] # A_STAR) =>
                  /\ MapKeys(openSet'[o]) = MapKeys(openSet[o])
                  /\ MapKeys(closedSet'[o]) = MapKeys(closedSet[o])
            /\ (o # OwnerInForce \/ out'.handler[2] # CONSTRAINT_SATISFACTION) =>
                  /\ domains'[o] = domains[o]
                  /\ assignments'[o] = assignments[o]
                  /\ constraints'[o] = constraints[o]]_vars
  /\ [](AStarKeys("top") \cap AStarKeys("hyb") = {})

\* Both A* instances have handled a request of the session: node 1 is in the
\* closedSet of the Reasoner's A* and node 2 in that of Hybrid's A*.
OtherIndexesUntouchedWitness ==
  /\ out.op = "processThought"
  /\ out.handler = <<"hyb", A_STAR>>
  /\ MapKeys(closedSet["top"]) = <<1>>
  /\ MapKeys(closedSet["hyb"]) = <<2>>

\* C37: clear leaves the strategy selection as it was: the current strategy
\* of the Reasoner and the active sub-strategy of Hybrid are after clear the
\* ones in force before it, and the request that follows a clear, when it
\* carries no strategyType, is handled by that current strategy and not by
\* the configured default.
ClearKeepsSelection ==
  [][/\ out'.op = "clear" =>
          /\ currentStrategy' = currentStrategy
          /\ activeStrategy' = activeStrategy
     /\ (out.op = "clear" /\ PlainStep /\ out'.request.strategyType = NoStrategy) =>
          /\ HandlingStrategy(out'.handler) = currentStrategy
          /\ currentStrategy' = currentStrategy
          /\ ~out'.threw => out'.resp.strategyUsed = currentStrategy]_vars

\* clear has been called while Hybrid was the current strategy and MCTS its
\* active sub-strategy: the store is empty and both are still in force.
ClearKeepsSelectionWitness ==
  /\ out.op = "clear"
  /\ Len(store) = 0
  /\ nextId > 1
  /\ currentStrategy = HYBRID
  /\ currentStrategy # defaultStrategy
  /\ activeStrategy = MCTS

RECURSIVE Lineage(_, _, _)
Lineage(st, id, steps) ==
  IF steps = 0 \/ ~MapHas(st, id) THEN <<>>
  ELSE <<id>> \o Lineage(st, MapGet(st, id).parentId, steps - 1)

\* C39: in every reachable state of the store the parentId links are acyclic:
\* the parentId of a node is the one of its request, and when it names a node
\* that node was created before (its id is older than the node's own fresh
\* id); so the ids on the way up from a node fall strictly, the walk ends,
\* and getPath does not fail with CycleDetected.
ParentLinksAcyclic ==
  \A i \in 1..Len(store) :
    \E id \in {store[i][1]}, n \in {store[i][2]} :
       /\ n.id = id
       /\ n.parentId # id
       /\ n.parentId \in 1..(nextId - 1) => n.parentId < id
       /\ \E up \in {Lineage(store, id, nextId)} :
            /\ Len(up) < nextId
            /\ \A j \in 1..(Len(up) - 1) : up[j + 1] < up[j]
       /\ getPath(store, id).error # "CycleDetected"

\* Node 3 is in the store as a child of node 2, itself a child of node 1,
\* which has been evicted: the path of node 3 is node 2 and node 3.
ParentLinksAcyclicWitness ==
  /\ KeySet(store) = {2, 3}
  /\ MapGet(store, 3).parentId = 2
  /\ MapGet(store, 2).parentId = 1
  /\ Len(getPath(store, 3).path) = 2

\* The default strategy of the category of a request with a problemType.
CategoryDefault(req) == getDefaultConfigForProblemType(ProblemTypeOf(req)).strategy

\* A request with a problemType and no strategyType.
DefaultedStep == CategoryStep /\ out'.request.strategyType = NoStrategy

\* C40: a category request without strategyType changes the default of the
\* session for good: it makes the default strategy of its category the
\* current strategy, a request without problemType and strategyType that
\* follows is handled by the current strategy and leaves it in place, and the
\* current strategy changes only with a request that names a registered
\* strategy and no category, a setStrategy call or another category request
\* without strategyType.
CategoryDefaultPersists ==
  [][/\ DefaultedStep =>
          /\ currentStrategy' = CategoryDefault(out'.request)
          /\ HandlingStrategy(out'.handler) = CategoryDefault(out'.request)
     /\ (PlainStep /\ out'.request.strategyType = NoStrategy) =>
          /\ currentStrategy' = currentStrategy
          /\ HandlingStrategy(out'.handler) = currentStrategy
          /\ (out.op = "processThought" /\ out.request.problemType # NoProblemType
                /\ out.request.strategyType = NoStrategy)
               => HandlingStrategy(out'.handler) = CategoryDefault(out.request)
     /\ currentStrategy' # currentStrategy =>
          \/ DefaultedStep
          \/ PlainStep /\ out'.request.strategyType \in SeqToSet(strategies)
          \/ out'.op = "setStrategy"]_vars

\* The second request of a session, one without problemType and strategyType,
\* has been handled by MCTS, the default strategy of the procedural category,
\* which is still the current strategy.
CategoryDefaultPersistsWitness ==
  /\ out.op = "processThought"
  /\ ~out.threw
  /\ out.request.problemType = NoProblemType
  /\ out.request.strategyType = NoStrategy
  /\ out.handler = <<"top", MCTS>>
  /\ out.resp.strategyUsed = MCTS
  /\ out.resp.nodeId = 2
  /\ currentStrategy = MCTS
  /\ CategoryDefault([DefaultRequest EXCEPT !.problemType = "procedural"]) = MCTS

====
